---- MODULE Spec2Model ----
(***************************************************************************)
(* Model of the conference-site conversion scripts: the schedule summary   *)
(* grid (schedule_script/generate_schedule_summary_table.py) and the ID    *)
(* scheme of the detailed schedule (schedule_script/generate_full_         *)
(* schedule.py).                                                           *)
(*                                                                         *)
(* Text is a sequence of one-character strings.  Characters outside ASCII  *)
(* are written by name: "EN" is the en dash U+2013, "EM" the em dash       *)
(* U+2014.  A time of day is its minute count 0..1439, NoTime is Python's  *)
(* None.  A date is <<year, month, day>>, NoDate is None.                  *)
(***************************************************************************)
EXTENDS Integers, Sequences, FiniteSets, TLC

\* ------------------------------------------------------------------------
\* Python's str and re primitives, on texts
\* ------------------------------------------------------------------------

UpperLetters == <<"A","B","C","D","E","F","G","H","I","J","K","L","M",
                  "N","O","P","Q","R","S","T","U","V","W","X","Y","Z">>

LowerLetters == <<"a","b","c","d","e","f","g","h","i","j","k","l","m",
                  "n","o","p","q","r","s","t","u","v","w","x","y","z">>

Digits == <<"0","1","2","3","4","5","6","7","8","9">>

\* position of c in seq, 0 when absent
IndexOf(c, seq) ==
    IF \E i \in 1..Len(seq) : seq[i] = c
    THEN CHOOSE i \in 1..Len(seq) : seq[i] = c /\ \A j \in 1..(i-1) : seq[j] # c
    ELSE 0

IsDigit(c) == IndexOf(c, Digits) > 0

\* [a-z0-9] after lowering
IsAlnum(c) == IsDigit(c) \/ IndexOf(c, LowerLetters) > 0 \/ IndexOf(c, UpperLetters) > 0

\* \w of the re module
IsWord(c) == IsAlnum(c) \/ c = "_"

\* \s of the re module, str.strip's default set
IsSpace(c) == c = " " \/ c = "\t"

DigitVal(c) == IndexOf(c, Digits) - 1

lower(s) ==
    [i \in 1..Len(s) |->
        IF IndexOf(s[i], UpperLetters) > 0 THEN LowerLetters[IndexOf(s[i], UpperLetters)] ELSE s[i]]

upper(s) ==
    [i \in 1..Len(s) |->
        IF IndexOf(s[i], LowerLetters) > 0 THEN UpperLetters[IndexOf(s[i], LowerLetters)] ELSE s[i]]

\* s[a-1:b] of Python: positions a..b of s, clamped to the text
Slice(s, a, b) ==
    LET lo == IF a < 1 THEN 1 ELSE a
        hi == IF b > Len(s) THEN Len(s) ELSE b
    IN  IF lo > hi THEN <<>> ELSE SubSeq(s, lo, hi)

\* str.strip()
strip(s) ==
    LET keep == {i \in 1..Len(s) : ~IsSpace(s[i])}
    IN  IF keep = {} THEN <<>>
        ELSE Slice(s, CHOOSE i \in keep : \A j \in keep : i <= j,
                      CHOOSE i \in keep : \A j \in keep : i >= j)

\* str.strip("-")
strip_hyphens(s) ==
    LET keep == {i \in 1..Len(s) : s[i] # "-"}
    IN  IF keep = {} THEN <<>>
        ELSE Slice(s, CHOOSE i \in keep : \A j \in keep : i <= j,
                      CHOOSE i \in keep : \A j \in keep : i >= j)

startswith(s, p) == Len(p) <= Len(s) /\ Slice(s, 1, Len(p)) = p

\* Python's "p in s"
contains(s, p) == \E i \in 0..(Len(s) - Len(p)) : Slice(s, i + 1, i + Len(p)) = p

\* int(text of digits)
RECURSIVE int(_)
int(s) == IF s = <<>> THEN 0 ELSE 10 * int(Slice(s, 1, Len(s) - 1)) + DigitVal(s[Len(s)])

\* format(n, "d"), n >= 0
RECURSIVE decimal(_)
decimal(n) == IF n < 10 THEN <<Digits[n + 1]>> ELSE decimal(n \div 10) \o <<Digits[(n % 10) + 1]>>

\* format(n, "02d")
dd(n) == IF n < 10 THEN <<"0">> \o decimal(n) ELSE decimal(n)

\* the element of a singleton set: Value({e : x \in {v}}) is e with x naming
\* the value of v
Value(S) == CHOOSE v \in S : TRUE

\* the text as one TLA+ string, to state expected outputs
RECURSIVE Str(_)
Str(s) == IF Len(s) = 0 THEN "" ELSE s[1] \o Str(Slice(s, 2, Len(s)))

\* ------------------------------------------------------------------------
\* datetime.strptime, for the directives the scripts use
\* ------------------------------------------------------------------------

\* Optional[time] None
NoTime == -1

\* an exception that leaves the function instead of a value
ValueError == -2

\* Optional[date] None
NoDate == <<>>

MonthNames ==
    << <<"j","a","n","u","a","r","y">>, <<"f","e","b","r","u","a","r","y">>,
       <<"m","a","r","c","h">>, <<"a","p","r","i","l">>, <<"m","a","y">>,
       <<"j","u","n","e">>, <<"j","u","l","y">>, <<"a","u","g","u","s","t">>,
       <<"s","e","p","t","e","m","b","e","r">>, <<"o","c","t","o","b","e","r">>,
       <<"n","o","v","e","m","b","e","r">>, <<"d","e","c","e","m","b","e","r">> >>

WeekdayNames ==
    << <<"m","o","n","d","a","y">>, <<"t","u","e","s","d","a","y">>,
       <<"w","e","d","n","e","s","d","a","y">>, <<"t","h","u","r","s","d","a","y">>,
       <<"f","r","i","d","a","y">>, <<"s","a","t","u","r","d","a","y">>,
       <<"s","u","n","d","a","y">> >>

\* "Monday" from "monday"
capitalize(s) == IF s = <<>> THEN <<>> ELSE upper(Slice(s, 1, 1)) \o Slice(s, 2, Len(s))

IsLeap(y) == (y % 4 = 0) /\ ((y % 100 # 0) \/ (y % 400 = 0))

DaysInMonth(y, m) ==
    IF m = 2 THEN (IF IsLeap(y) THEN 29 ELSE 28)
    ELSE IF m \in {4, 6, 9, 11} THEN 30 ELSE 31

RECURSIVE DaysBeforeMonth(_, _)
DaysBeforeMonth(y, m) == IF m <= 1 THEN 0 ELSE DaysBeforeMonth(y, m - 1) + DaysInMonth(y, m - 1)

\* date.toordinal()
toordinal(d) ==
    LET y == d[1] - 1
    IN  y * 365 + (y \div 4) - (y \div 100) + (y \div 400) + DaysBeforeMonth(d[1], d[2]) + d[3]

\* date.weekday(): 0 is Monday
weekday(d) == (toordinal(d) + 6) % 7

\* the lengths, in the order the compiled regex tries them, that format element e
\* (a directive "%x", a blank for \s+, or a literal character) matches at s[pos]
ElementLens(e, s, pos) ==
    LET c1 == IF pos <= Len(s) THEN s[pos] ELSE ""
        c2 == IF pos + 1 <= Len(s) THEN s[pos + 1] ELSE ""
        d19(c) == IsDigit(c) /\ c # "0"
        two(ok) == IF ok THEN <<2>> ELSE <<>>
        one(ok) == IF ok THEN <<1>> ELSE <<>>
        run == IF \E k \in pos..Len(s) : ~IsSpace(s[k])
               THEN (CHOOSE k \in pos..Len(s) : ~IsSpace(s[k]) /\ \A j \in pos..(k-1) : IsSpace(s[j])) - pos
               ELSE Len(s) + 1 - pos
        names(n) == {k \in 1..12 : lower(Slice(s, pos, pos + n - 1)) =
                                     (IF e = "%b" THEN Slice(MonthNames[k], 1, 3) ELSE MonthNames[k])
                                   /\ (e = "%b" => n = 3) /\ (e = "%B" => n = Len(MonthNames[k]))}
    IN  CASE e \in {"%I", "%m"} ->
               two((c1 = "1" /\ c2 \in {"0","1","2"}) \/ (c1 = "0" /\ d19(c2))) \o one(d19(c1))
          [] e = "%M" -> two(c1 \in {"0","1","2","3","4","5"} /\ IsDigit(c2)) \o one(IsDigit(c1))
          [] e = "%H" ->
               two((c1 = "2" /\ c2 \in {"0","1","2","3"}) \/ (c1 \in {"0","1"} /\ IsDigit(c2)))
               \o one(IsDigit(c1))
          [] e = "%d" ->
               two((c1 = "3" /\ c2 \in {"0","1"}) \/ (c1 \in {"1","2"} /\ IsDigit(c2))
                   \/ (c1 = "0" /\ d19(c2)))
               \o one(d19(c1)) \o two(c1 = " " /\ d19(c2))
          [] e = "%p" -> two(lower(Slice(s, pos, pos + 1)) \in {<<"a","m">>, <<"p","m">>})
          [] e = "%y" -> two(IsDigit(c1) /\ IsDigit(c2))
          [] e = "%Y" -> IF pos + 3 <= Len(s) /\ \A k \in pos..(pos + 3) : IsDigit(s[k])
                         THEN <<4>> ELSE <<>>
          [] e \in {"%b", "%B"} ->
               \* names sorted longest first; at most one name of each length matches
               LET RECURSIVE from(_)
                   from(n) == IF n < 3 THEN <<>>
                              ELSE (IF names(n) # {} /\ pos + n - 1 <= Len(s) THEN <<n>> ELSE <<>>)
                                   \o from(n - 1)
               IN  from(9)
          [] e = " " ->
               LET RECURSIVE down(_)
                   down(n) == IF n < 1 THEN <<>> ELSE <<n>> \o down(n - 1)
               IN  down(run)
          [] OTHER -> one(c1 = e)

\* re.match of the format's regex on s from pos: the first match in the regex's
\* order of preference; cap maps each directive to the text it matched
RECURSIVE strptime_match(_, _, _, _, _)
RECURSIVE strptime_try(_, _, _, _, _, _)
strptime_match(fmt, i, s, pos, cap) ==
    IF i > Len(fmt) THEN [ok |-> TRUE, endpos |-> pos, cap |-> cap]
    ELSE strptime_try(ElementLens(fmt[i], s, pos), fmt, i, s, pos, cap)

strptime_try(lens, fmt, i, s, pos, cap) ==
    IF lens = <<>> THEN [ok |-> FALSE, endpos |-> pos, cap |-> cap]
    ELSE Value({IF r.ok THEN r ELSE strptime_try(Tail(lens), fmt, i, s, pos, cap)
                : r \in {strptime_match(fmt, i + 1, s, pos + lens[1],
                                        (fmt[i] :> Slice(s, pos, pos + lens[1] - 1)) @@ cap)}})

\* datetime.strptime(s, fmt): [err, hour, minute, year, month, day]; err is the
\* ValueError of a mismatch, of unconverted data or of an impossible date
strptime(s, fmt) ==
    Value({LET c == r.cap
               has(k) == k \in DOMAIN c
               pm == has("%p") /\ lower(c["%p"]) = <<"p","m">>
               hour == IF has("%H") THEN int(c["%H"])
                       ELSE IF has("%I") THEN (int(c["%I"]) % 12) + (IF pm THEN 12 ELSE 0)
                       ELSE 0
               minute == IF has("%M") THEN int(c["%M"]) ELSE 0
               yy == IF has("%y") THEN int(c["%y"]) ELSE 0
               year == IF has("%Y") THEN int(c["%Y"])
                       ELSE IF has("%y") THEN (IF yy <= 68 THEN 2000 + yy ELSE 1900 + yy)
                       ELSE 1900
               month == IF has("%m") THEN int(c["%m"])
                        ELSE IF has("%b")
                        THEN CHOOSE k \in 1..12 : Slice(MonthNames[k], 1, 3) = lower(c["%b"])
                        ELSE IF has("%B") THEN CHOOSE k \in 1..12 : MonthNames[k] = lower(c["%B"])
                        ELSE 1
               day == IF has("%d") THEN int(strip(c["%d"])) ELSE 1
               bad == ~r.ok \/ r.endpos # Len(s) + 1
           IN  IF bad \/ year < 1 \/ day > DaysInMonth(year, month)
               THEN [err |-> TRUE, hour |-> 0, minute |-> 0, year |-> 0, month |-> 0, day |-> 0]
               ELSE [err |-> FALSE, hour |-> hour, minute |-> minute,
                     year |-> year, month |-> month, day |-> day]
           : r \in {strptime_match(fmt, 1, s, 1, <<>>)}})

\* ------------------------------------------------------------------------
\* generate_schedule_summary_table.py: times and dates
\* ------------------------------------------------------------------------

TBD == <<"T","B","D">>

_normalize_meridiem(s) ==
    Value({LET n == Len(s2)
               m == n >= 2 /\ lower(Slice(s2, n - 1, n)) \in {<<"a","m">>, <<"p","m">>}
               mer == upper(Slice(s2, n - 1, n))
           IN  IF ~m THEN s2
               ELSE IF n >= 3 /\ s2[n - 2] # " " THEN Slice(s2, 1, n - 2) \o <<" ">> \o mer
               ELSE Slice(s2, 1, n - 2) \o mer
           : s2 \in {strip(s)}})

\* the formats of parse_time_piece, in the order they are tried
TimeFormats ==
    << <<"%I", ":", "%M", " ", "%p">>, <<"%I", " ", "%p">>, <<"%H", ":", "%M">>, <<"%H">> >>

\* a variant that lets strptime's ValueError escape
parse_time_piece_uncaught(piece) ==
    Value({IF s = <<>> \/ upper(s) = TBD THEN NoTime
           ELSE Value({IF r.err THEN ValueError ELSE 60 * r.hour + r.minute
                       : r \in {strptime(_normalize_meridiem(s), TimeFormats[1])}})
           : s \in {strip(piece)}})

parse_time_piece(piece) ==
    Value({IF s = <<>> \/ upper(s) = TBD THEN NoTime
           ELSE \* the results of the formats that parse, in the order of the loop
                Value({IF parsed = <<>> THEN NoTime
                       ELSE 60 * parsed[1].hour + parsed[1].minute
                       : parsed \in {SelectSeq([k \in 1..Len(TimeFormats) |->
                                                   strptime(_normalize_meridiem(s), TimeFormats[k])],
                                               LAMBDA r : ~r.err)}})
           : s \in {strip(piece)}})

\* str.replace of both dashes by "-"
replace_dashes(s) == [i \in 1..Len(s) |-> IF s[i] \in {"EN", "EM"} THEN "-" ELSE s[i]]

\* <<start, end>>
parse_time_range(val) ==
    Value({LET s == replace_dashes(s0)
               k == IndexOf("-", s)
               left == Slice(s, 1, k - 1)
               right == Slice(s, k + 1, Len(s))
           IN  IF s0 = <<>> \/ upper(s0) = TBD THEN <<NoTime, NoTime>>
               ELSE <<parse_time_piece(IF k = 0 THEN s ELSE _normalize_meridiem(left)),
                      IF k = 0 THEN NoTime ELSE parse_time_piece(_normalize_meridiem(right))>>
           : s0 \in {strip(val)}})

\* a variant that keeps the leading zero of %I
fmt_time_padded(t) ==
    IF t = NoTime THEN <<>>
    ELSE LET h == t \div 60
             h12 == IF h % 12 = 0 THEN 12 ELSE h % 12
         IN  dd(h12) \o <<":">> \o dd(t % 60) \o <<" ">>
             \o (IF h < 12 THEN <<"A","M">> ELSE <<"P","M">>)

fmt_time(t) ==
    IF t = NoTime THEN <<>>
    ELSE LET h == t \div 60
             h12 == IF h % 12 = 0 THEN 12 ELSE h % 12
         IN  decimal(h12) \o <<":">> \o dd(t % 60) \o <<" ">>
             \o (IF h < 12 THEN <<"A","M">> ELSE <<"P","M">>)

format_time_range(start, end) ==
    IF start # NoTime /\ end # NoTime THEN fmt_time(start) \o <<" ","-"," ">> \o fmt_time(end)
    ELSE IF start # NoTime THEN fmt_time(start)
    ELSE <<>>

\* the formats of parse_date, in the order they are tried
DateFormats ==
    << <<"%Y", "-", "%m", "-", "%d">>, <<"%m", "/", "%d", "/", "%Y">>,
       <<"%m", "/", "%d", "/", "%y">>, <<"%b", " ", "%d", ",", " ", "%Y">>,
       <<"%B", " ", "%d", ",", " ", "%Y">> >>

parse_date(val) ==
    IF val = <<>> THEN NoDate
    ELSE \* the results of the formats that parse, in the order of the loop
         Value({IF parsed = <<>> THEN NoDate
                ELSE <<parsed[1].year, parsed[1].month, parsed[1].day>>
                : parsed \in {SelectSeq([k \in 1..Len(DateFormats) |->
                                            strptime(strip(val), DateFormats[k])],
                                        LAMBDA r : ~r.err)}})

\* a variant that takes the abbreviated day name (%a)
weekday_anchor_from_date_short(d) ==
    IF d = NoDate THEN <<>> ELSE Slice(WeekdayNames[weekday(d) + 1], 1, 3)

weekday_anchor_from_date(d) ==
    IF d = NoDate THEN <<>> ELSE WeekdayNames[weekday(d) + 1]

\* "Monday, Oct. 27"
human_day_label_from_date(d) ==
    IF d = NoDate THEN <<>>
    ELSE capitalize(WeekdayNames[weekday(d) + 1]) \o <<",", " ">>
         \o capitalize(Slice(MonthNames[d[2]], 1, 3)) \o <<".", " ">> \o decimal(d[3])

\* ------------------------------------------------------------------------
\* The regular expressions of the ID scheme (both scripts use the same ones)
\* ------------------------------------------------------------------------

IsDash(c) == c \in {"-", "EN", "EM"}

\* number of \s characters of s from position i on
RECURSIVE SpaceRun(_, _)
SpaceRun(s, i) == IF i <= Len(s) /\ IsSpace(s[i]) THEN 1 + SpaceRun(s, i + 1) ELSE 0

\* re.split(r"\s*[-EN EM]\s*", s): the parts between the leftmost matches
RECURSIVE re_split_dash(_)
re_split_dash(s) ==
    LET dash_of(i) == i + SpaceRun(s, i)
        after(dash) == dash + 1 + SpaceRun(s, dash + 1)
        cut(first) == <<Slice(s, 1, first - 1)>>
                      \o re_split_dash(Slice(s, after(dash_of(first)), Len(s)))
        split(at) == IF at = {} THEN <<s>> ELSE cut(CHOOSE i \in at : \A j \in at : i <= j)
    IN  split({i \in 1..Len(s) : dash_of(i) <= Len(s) /\ IsDash(s[dash_of(i)])})

\* re.search(r"(?i)\b([AP]\.?M\.?)\b", s).group(1), <<>> when there is no match
re_search_ampm(s) ==
    LET boundary(i) == \* \b between s[i-1] and s[i]
            (i >= 2 /\ i - 1 <= Len(s) /\ IsWord(s[i - 1])) # (i <= Len(s) /\ IsWord(s[i]))
        c(k) == IF k <= Len(s) THEN lower(<<s[k]>>)[1] ELSE ""
        \* ends of "M", "M." at m, in the order the regex tries them
        opt(m) == IF c(m) = "m"
                  THEN (IF c(m + 1) = "." /\ boundary(m + 2) THEN <<m + 1>> ELSE <<>>)
                       \o (IF boundary(m + 1) THEN <<m>> ELSE <<>>)
                  ELSE <<>>
        \* ends of a match starting at i, in the order the regex tries them
        ends(i) == IF c(i) \in {"a", "p"} /\ boundary(i)
                   THEN (IF c(i + 1) = "." THEN opt(i + 2) ELSE <<>>) \o opt(i + 1)
                   ELSE <<>>
        group(first, e) == Slice(s, first, e[1])
        leftmost(first) == group(first, ends(first))
        found(at) == IF at = {} THEN <<>> ELSE leftmost(CHOOSE i \in at : \A j \in at : i <= j)
    IN  found({i \in 1..Len(s) : ends(i) # <<>>})

\* re.match(r"^(\d{1,2})(?::(\d{2}))?\s*([ap]\.?m\.?)?$", s): [ok, hh, mm, ampm],
\* mm and ampm empty when their group did not take part
re_match_clock(s) ==
    LET groups(nd, colon, rest) ==
            IF nd > 0 /\ (rest = <<>>
                          \/ rest \in { <<"a","m">>, <<"a",".","m">>, <<"a","m",".">>,
                                        <<"a",".","m",".">>, <<"p","m">>, <<"p",".","m">>,
                                        <<"p","m",".">>, <<"p",".","m",".">> })
            THEN [ok |-> TRUE, hh |-> Slice(s, 1, nd),
                  mm |-> IF colon THEN Slice(s, nd + 2, nd + 3) ELSE <<>>,
                  ampm |-> SelectSeq(rest, LAMBDA c : c # ".")]
            ELSE [ok |-> FALSE, hh |-> <<>>, mm |-> <<>>, ampm |-> <<>>]
        from(p) == p + SpaceRun(s, p)
        minutes(nd, colon) ==
            groups(nd, colon, Slice(s, from(IF colon THEN nd + 4 ELSE nd + 1), Len(s)))
        hours(nd) == minutes(nd, Len(s) >= nd + 3 /\ s[nd + 1] = ":"
                                 /\ IsDigit(s[nd + 2]) /\ IsDigit(s[nd + 3]))
    IN  hours(IF Len(s) >= 2 /\ IsDigit(s[1]) /\ IsDigit(s[2]) THEN 2
              ELSE IF Len(s) >= 1 /\ IsDigit(s[1]) THEN 1 ELSE 0)

\* unicodedata.normalize("NFKD", c), then encode("ascii", "ignore"): the ASCII
\* characters of the decomposition
nfkd_ascii(c) ==
    CASE c = "E_ACUTE" -> <<"e">>
      [] c \in {"EN", "EM"} -> <<>>
      [] OTHER -> <<c>>

RECURSIVE ascii_ignore(_)
ascii_ignore(s) == IF s = <<>> THEN <<>> ELSE nfkd_ascii(s[1]) \o ascii_ignore(Tail(s))

IsLowerAlnum(c) == IsDigit(c) \/ IndexOf(c, LowerLetters) > 0

\* re.sub(r"[^a-z0-9]+", "-", s)
RECURSIVE re_sub_nonalnum(_)
re_sub_nonalnum(s) ==
    IF s = <<>> THEN <<>>
    ELSE LET n == Len(s)
             head == re_sub_nonalnum(Slice(s, 1, n - 1))
         IN  IF IsLowerAlnum(s[n]) THEN head \o <<s[n]>>
             ELSE IF n >= 2 /\ ~IsLowerAlnum(s[n - 1]) THEN head
             ELSE head \o <<"-">>

\* re.sub(r"-{2,}", "-", s)
RECURSIVE re_sub_hyphens(_)
re_sub_hyphens(s) ==
    IF s = <<>> THEN <<>>
    ELSE LET n == Len(s)
             head == re_sub_hyphens(Slice(s, 1, n - 1))
         IN  IF s[n] = "-" /\ n >= 2 /\ s[n - 1] = "-" THEN head ELSE head \o <<s[n]>>

\* ------------------------------------------------------------------------
\* generate_schedule_summary_table.py: anchor IDs
\* ------------------------------------------------------------------------

\* a variant that does not trim the hyphens at the ends
slugify_ascii_untrimmed(s) ==
    IF s = <<>> THEN <<>>
    ELSE re_sub_hyphens(re_sub_nonalnum(lower(ascii_ignore(s))))

slugify_ascii(s) ==
    IF s = <<>> THEN <<>>
    ELSE re_sub_hyphens(strip_hyphens(re_sub_nonalnum(lower(ascii_ignore(s)))))

\* a variant that adds twelve hours to every PM time, to 12 PM too
_parse_single_time_to_24h_token_pm_plus_12(t) ==
    Value({LET hh0 == int(m.hh)
               mm0 == IF m.mm = <<>> THEN 0 ELSE int(m.mm)
               hh == IF m.ampm \in {<<"a","m">>, <<"p","m">>}
                     THEN (IF m.ampm = <<"p","m">> THEN hh0 + 12
                           ELSE IF hh0 = 12 THEN 0 ELSE hh0)
                     ELSE hh0
               mm == IF mm0 > 59 THEN 59 ELSE mm0
           IN  IF ~m.ok THEN <<>> ELSE dd(hh) \o dd(mm)
           : m \in {re_match_clock(lower(strip(t)))}})

\* the token text; <<>> is None (a token is never empty)
_parse_single_time_to_24h_token(t) ==
    Value({LET hh0 == int(m.hh)
               mm0 == IF m.mm = <<>> THEN 0 ELSE int(m.mm)
               hh == IF m.ampm \in {<<"a","m">>, <<"p","m">>}
                     THEN (IF hh0 = 12 THEN (IF m.ampm = <<"a","m">> THEN 0 ELSE 12)
                           ELSE IF m.ampm = <<"p","m">> THEN hh0 + 12 ELSE hh0)
                     ELSE hh0
               mm == IF mm0 > 59 THEN 59 ELSE mm0
           IN  IF ~m.ok THEN <<>> ELSE dd(hh) \o dd(mm)
           : m \in {re_match_clock(lower(strip(t)))}})

time_range_token_from_display(range_text) ==
    Value({IF s = <<>> THEN <<>>
           ELSE IF upper(s) = TBD THEN <<"t","b","d">>
           ELSE Value({IF Len(parts) # 2 THEN _parse_single_time_to_24h_token(s)
                       ELSE Value({IF tok[1] # <<>> /\ tok[2] # <<>> THEN tok[1] \o <<"-">> \o tok[2]
                                   ELSE slugify_ascii(s)
                                   : tok \in {<<_parse_single_time_to_24h_token(
                                                    IF re_search_ampm(parts[2]) # <<>>
                                                       /\ re_search_ampm(parts[1]) = <<>>
                                                    THEN parts[1] \o <<" ">> \o re_search_ampm(parts[2])
                                                    ELSE parts[1]),
                                                _parse_single_time_to_24h_token(parts[2])>>}})
                       : parts \in {re_split_dash(s)}})
           : s \in {strip(range_text)}})

\* "-".join(parts)
RECURSIVE join_hyphen(_)
join_hyphen(parts) ==
    IF parts = <<>> THEN <<>>
    ELSE IF Len(parts) = 1 THEN parts[1]
    ELSE parts[1] \o <<"-">> \o join_hyphen(Tail(parts))

\* a variant whose suffix is the bare number: base-2, base-3, ...
RECURSIVE first_free_bare_number(_, _, _)
first_free_bare_number(base, i, registry) ==
    LET anchor == IF i = 1 THEN base ELSE base \o <<"-">> \o decimal(i)
    IN  IF anchor \in registry THEN first_free_bare_number(base, i + 1, registry) ELSE anchor

\* the first of base, base-x2, base-x3, ... that registry does not hold
RECURSIVE first_free(_, _, _)
first_free(base, i, registry) ==
    LET anchor == IF i = 1 THEN base ELSE base \o <<"-", "x">> \o decimal(i)
    IN  IF anchor \in registry THEN first_free(base, i + 1, registry) ELSE anchor

\* a variant that returns the base ID without looking it up
make_fullschedule_anchor_no_suffix(day_anchor, time_text, session_type, session_name, registry) ==
    Value({LET base == IF parts # <<>> THEN join_hyphen(parts)
                       ELSE IF day_anchor # <<>> THEN day_anchor
                       ELSE <<"t","i","m","e","s","l","o","t">>
           IN  [anchor |-> base, registry |-> registry \cup {base}]
           : parts \in {SelectSeq(<<day_anchor, slugify_ascii(session_type),
                                    slugify_ascii(session_name),
                                    time_range_token_from_display(time_text)>>,
                                  LAMBDA p : p # <<>>)}})

\* [anchor, registry]: the ID returned and the registry after the call
make_fullschedule_anchor(day_anchor, time_text, session_type, session_name, registry) ==
    Value({Value({[anchor |-> anchor, registry |-> registry \cup {anchor}]
                  : anchor \in {first_free(IF parts # <<>> THEN join_hyphen(parts)
                                           ELSE IF day_anchor # <<>> THEN day_anchor
                                           ELSE <<"t","i","m","e","s","l","o","t">>,
                                           1, registry)}})
           : parts \in {SelectSeq(<<day_anchor, slugify_ascii(session_type),
                                    slugify_ascii(session_name),
                                    time_range_token_from_display(time_text)>>,
                                  LAMBDA p : p # <<>>)}})

\* ------------------------------------------------------------------------
\* generate_full_schedule.py: slot IDs of the detailed page
\* ------------------------------------------------------------------------

slugify(s) ==
    IF s = <<>> THEN <<>>
    ELSE re_sub_hyphens(strip_hyphens(re_sub_nonalnum(lower(ascii_ignore(s)))))

full_parse_single_time_to_24h_token(t) ==
    Value({LET hh0 == int(m.hh)
               mm0 == IF m.mm = <<>> THEN 0 ELSE int(m.mm)
               hh == IF m.ampm \in {<<"a","m">>, <<"p","m">>}
                     THEN (IF hh0 = 12 THEN (IF m.ampm = <<"a","m">> THEN 0 ELSE 12)
                           ELSE IF m.ampm = <<"p","m">> THEN hh0 + 12 ELSE hh0)
                     ELSE hh0
               mm == IF mm0 > 59 THEN 59 ELSE mm0
           IN  IF ~m.ok THEN <<>> ELSE dd(hh) \o dd(mm)
           : m \in {re_match_clock(lower(strip(t)))}})

time_range_token(time_str) ==
    Value({IF s = <<>> THEN <<>>
           ELSE IF upper(s) = TBD THEN <<"t","b","d">>
           ELSE Value({IF Len(parts) # 2 THEN full_parse_single_time_to_24h_token(s)
                       ELSE Value({IF tok[1] # <<>> /\ tok[2] # <<>> THEN tok[1] \o <<"-">> \o tok[2]
                                   ELSE slugify(s)
                                   : tok \in {<<full_parse_single_time_to_24h_token(
                                                    IF re_search_ampm(parts[2]) # <<>>
                                                       /\ re_search_ampm(parts[1]) = <<>>
                                                    THEN parts[1] \o <<" ">> \o re_search_ampm(parts[2])
                                                    ELSE parts[1]),
                                                full_parse_single_time_to_24h_token(parts[2])>>}})
                       : parts \in {re_split_dash(s)}})
           : s \in {strip(time_str)}})

\* a variant that numbers the first collision -x1
make_slot_id_from_x1(day_anchor, time_text, session_type, session_name, registry) ==
    Value({LET base == IF parts # <<>> THEN join_hyphen(parts)
                       ELSE IF day_anchor # <<>> THEN day_anchor
                       ELSE <<"t","i","m","e","s","l","o","t">>
               anchor == IF base \in registry
                         THEN first_free(base \o <<"-", "x", "1">>, 1, registry) ELSE base
           IN  [anchor |-> anchor, registry |-> registry \cup {anchor}]
           : parts \in {SelectSeq(<<day_anchor, slugify(session_type), slugify(session_name),
                                    time_range_token(time_text)>>,
                                  LAMBDA p : p # <<>>)}})

make_slot_id(day_anchor, time_text, session_type, session_name, registry) ==
    Value({Value({[anchor |-> anchor, registry |-> registry \cup {anchor}]
                  : anchor \in {first_free(IF parts # <<>> THEN join_hyphen(parts)
                                           ELSE IF day_anchor # <<>> THEN day_anchor
                                           ELSE <<"t","i","m","e","s","l","o","t">>,
                                           1, registry)}})
           : parts \in {SelectSeq(<<day_anchor, slugify(session_type), slugify(session_name),
                                    time_range_token(time_text)>>,
                                  LAMBDA p : p # <<>>)}})

\* re.sub(r"(?i)\s*(AM|PM)", r" \1", t): a blank before every AM or PM
RECURSIVE re_sub_ampm(_)
re_sub_ampm(t) ==
    LET word_of(i) == i + SpaceRun(t, i)
        spaced(first, w) == Slice(t, 1, first - 1) \o <<" ">> \o Slice(t, w, w + 1)
                            \o re_sub_ampm(Slice(t, w + 2, Len(t)))
        leftmost(first) == spaced(first, word_of(first))
        sub(at) == IF at = {} THEN t ELSE leftmost(CHOOSE i \in at : \A j \in at : i <= j)
    IN  sub({i \in 1..Len(t) : lower(Slice(t, word_of(i), word_of(i) + 1))
                                   \in {<<"a","m">>, <<"p","m">>}})

\* str.replace("-", " EN "), then re.sub(r"\s+", " ", t)
RECURSIVE spread_hyphens(_)
spread_hyphens(t) ==
    IF t = <<>> THEN <<>>
    ELSE (IF t[1] = "-" THEN <<" ", "EN", " ">> ELSE <<t[1]>>) \o spread_hyphens(Tail(t))

RECURSIVE re_sub_spaces(_)
re_sub_spaces(t) ==
    IF t = <<>> THEN <<>>
    ELSE LET n == Len(t)
             head == re_sub_spaces(Slice(t, 1, n - 1))
         IN  IF ~IsSpace(t[n]) THEN head \o <<t[n]>>
             ELSE IF n >= 2 /\ IsSpace(t[n - 1]) THEN head
             ELSE head \o <<" ">>

normalize_time_range(time_str) ==
    Value({IF upper(t) = TBD THEN TBD
           ELSE strip(re_sub_spaces(spread_hyphens(re_sub_ampm(t))))
           : t \in {strip(time_str)}})

\* the formats of date_anchor_id, in the order they are tried
FullDateFormats ==
    << <<"%m", "/", "%d", "/", "%Y">>, <<"%Y", "-", "%m", "-", "%d">>,
       <<"%m", "-", "%d", "-", "%Y">> >>

date_anchor_id(date_str) ==
    \* the results of the formats that parse, in the order of the loop
    Value({IF parsed = <<>> THEN slugify(strip(date_str))
           ELSE WeekdayNames[weekday(<<parsed[1].year, parsed[1].month, parsed[1].day>>) + 1]
           : parsed \in {SelectSeq([k \in 1..Len(FullDateFormats) |->
                                       strptime(strip(date_str), FullDateFormats[k])],
                                   LAMBDA r : ~r.err)}})

\* ------------------------------------------------------------------------
\* Python's ordering of strings and tuples, sorted()
\* ------------------------------------------------------------------------

\* the characters in ascending code point order
CodePoints ==
    <<"\t"," ","!","\"","#","$","%","&","'","(",")","*","+",",","-",".","/",
      "0","1","2","3","4","5","6","7","8","9",":",";","<","=",">","?","@",
      "A","B","C","D","E","F","G","H","I","J","K","L","M","N","O","P","Q","R","S","T",
      "U","V","W","X","Y","Z","[","]","^","_",
      "a","b","c","d","e","f","g","h","i","j","k","l","m","n","o","p","q","r","s","t",
      "u","v","w","x","y","z","{","|","}","~","E_ACUTE","EN","EM">>

\* a text as the sequence of its code point ranks
ords(s) == [i \in 1..Len(s) |-> IndexOf(s[i], CodePoints)]

\* a < b for sequences of numbers, as Python compares strings
SeqLess(a, b) ==
    \E k \in 1..(Len(b)) :
        /\ \A j \in 1..(k - 1) : j <= Len(a) /\ a[j] = b[j]
        /\ (k > Len(a) \/ (k <= Len(a) /\ a[k] < b[k]))
        /\ k - 1 <= Len(a)

\* a < b for tuples of such sequences, as Python compares tuples
KeyLess(a, b) ==
    \E k \in 1..Len(a) : (\A j \in 1..(k - 1) : a[j] = b[j]) /\ SeqLess(a[k], b[k])

\* sorted(items, key=...): keys[i] is the key of items[i]; the sort is stable
sorted(items, keys) ==
    LET n == Len(items)
        before(i, j) == KeyLess(keys[i], keys[j]) \/ (keys[i] = keys[j] /\ i < j)
        rank(i) == Cardinality({j \in 1..n : before(j, i)}) + 1
    IN  [r \in 1..n |-> items[CHOOSE i \in 1..n : rank(i) = r]]

\* ------------------------------------------------------------------------
\* generate_schedule_summary_table.py: sessions and columns
\* ------------------------------------------------------------------------

\* re.sub(r"[^a-z0-9]+", "_", key)
RECURSIVE re_sub_underscore(_)
re_sub_underscore(s) ==
    IF s = <<>> THEN <<>>
    ELSE LET n == Len(s)
             head == re_sub_underscore(Slice(s, 1, n - 1))
         IN  IF IsLowerAlnum(s[n]) THEN head \o <<s[n]>>
             ELSE IF n >= 2 /\ ~IsLowerAlnum(s[n - 1]) THEN head
             ELSE head \o <<"_">>

\* a variant that names the page from the identifier as it is written
poster_session_external_href_as_written(title) ==
    LET t == lower(title)
        word == <<"p","o","s","t","e","r">>
        sess == <<"s","e","s","s","i","o","n">>
        stop(i) == LET a == i + Len(word)
                       b == a + SpaceRun(t, a)
                       c == b + Len(sess)
                   IN  IF Slice(t, i, a - 1) = word /\ Slice(t, b, c - 1) = sess
                       THEN c + SpaceRun(t, c) ELSE 0
        at == {i \in 1..Len(t) : stop(i) > 0 /\ stop(i) <= Len(t) /\ IsAlnum(t[stop(i)])}
        first == CHOOSE i \in at : \A j \in at : i <= j
        RECURSIVE run(_)
        run(k) == IF k <= Len(t) /\ IsAlnum(t[k]) THEN 1 + run(k + 1) ELSE 0
        key == Slice(title, stop(first), stop(first) + run(stop(first)) - 1)
    IN  IF title = <<>> \/ at = {} THEN <<>>
        ELSE <<"p","o","s","t","e","r","_","s","e","s","s","i","o","n","_">> \o key \o <<".","h","t","m","l">>

\* the external page of a "Poster Session X" title, <<>> is None
poster_session_external_href(title) ==
    LET t == lower(title)
        word == <<"p","o","s","t","e","r">>
        sess == <<"s","e","s","s","i","o","n">>
        \* end of "poster\s*session\s*" when it matches at i, else 0
        stop(i) == LET a == i + Len(word)
                       b == a + SpaceRun(t, a)
                       c == b + Len(sess)
                   IN  IF Slice(t, i, a - 1) = word /\ Slice(t, b, c - 1) = sess
                       THEN c + SpaceRun(t, c) ELSE 0
        \* the regex backtracks over the blanks only into a failure: what follows
        \* them must be [A-Za-z0-9]
        at == {i \in 1..Len(t) : stop(i) > 0 /\ stop(i) <= Len(t) /\ IsAlnum(t[stop(i)])}
        first == CHOOSE i \in at : \A j \in at : i <= j
        RECURSIVE run(_)
        run(k) == IF k <= Len(t) /\ IsAlnum(t[k]) THEN 1 + run(k + 1) ELSE 0
        key == Slice(t, stop(first), stop(first) + run(stop(first)) - 1)
    IN  IF title = <<>> \/ at = {} THEN <<>>
        ELSE <<"p","o","s","t","e","r","_","s","e","s","s","i","o","n","_">>
             \o re_sub_underscore(key) \o <<".","h","t","m","l">>

RECURSIVE escape_html(_)
escape_html(s) ==
    IF s = <<>> THEN <<>>
    ELSE (CASE s[1] = "&" -> <<"&","a","m","p",";">>
            [] s[1] = "<" -> <<"&","l","t",";">>
            [] s[1] = ">" -> <<"&","g","t",";">>
            [] s[1] = "\"" -> <<"&","q","u","o","t",";">>
            [] s[1] = "'" -> <<"&","#","3","9",";">>
            [] OTHER -> <<s[1]>>) \o escape_html(Tail(s))

\* Session.css_class
css_class(s) ==
    LET t == lower(s.title)
        c == lower(s.code)
    IN  IF contains(c, <<"p","a","p","e","r"," ","s","e","s","s","i","o","n">>) THEN "paper-sessions"
        ELSE IF contains(t, <<"c","o","f","f","e","e">>) \/ contains(t, <<"p","o","s","t","e","r">>)
             THEN "break-session"
        ELSE IF contains(t, <<"l","u","n","c","h">>) THEN "lunch-session"
        ELSE IF \/ contains(t, <<"o","p","e","n","i","n","g">>)
                \/ contains(t, <<"k","e","y","n","o","t","e">>)
                \/ contains(t, <<"c","o","n","f","e","r","e","n","c","e"," ","o","p","e","n">>)
             THEN "conference-opening"
        ELSE IF contains(t, <<"c","l","o","s","i","n","g">>) THEN "closing-session"
        ELSE "special-session"

is_lunch(s) == css_class(s) = "lunch-session"

\* "self.start or time(0, 0)": a time, midnight too, is true
or_midnight(t) == IF t = NoTime THEN 0 ELSE t

is_evening(s) == or_midnight(s.start) >= 17 * 60 + 30

\* a variant that counts 12:30 itself as morning
is_morning_inclusive(s) ==
    or_midnight(s.start) <= 12 * 60 + 30

is_morning(s) ==
    or_midnight(s.start) < 12 * 60 + 30

is_afternoon(s) == ~is_morning(s) /\ ~is_lunch(s) /\ ~is_evening(s)

\* Session.id_type
id_type(s) == IF s.code # <<>> THEN s.code ELSE s.title

LIKELY_TIME_KEYS == << <<"t","i","m","e">>, <<"t","i","m","e"," ","(","m","t",")">> >>

LIKELY_TYPE_KEYS == << <<"s","e","s","s","i","o","n"," ","t","y","p","e">>, <<"t","y","p","e">> >>

LIKELY_NAME_KEYS ==
    << <<"s","e","s","s","i","o","n"," ","n","a","m","e">>, <<"n","a","m","e">>,
       <<"t","r","a","c","k">> >>

LIKELY_DATE_KEYS == << <<"d","a","t","e">>, <<"d","a","y","/","d","a","t","e">>, <<"w","h","e","n">> >>

\* the keys of fn_lower in dict order: the lowered, stripped headers, each at
\* its first occurrence
RECURSIVE fn_lower_keys(_)
fn_lower_keys(fieldnames) ==
    IF fieldnames = <<>> THEN <<>>
    ELSE LET n == Len(fieldnames)
             head == fn_lower_keys(Slice(fieldnames, 1, n - 1))
             k == strip(lower(fieldnames[n]))
         IN  IF \E i \in 1..Len(head) : head[i] = k THEN head ELSE head \o <<k>>

\* fn_lower[k]: the last header with that key
fn_lower_value(fieldnames, k) ==
    fieldnames[CHOOSE i \in 1..Len(fieldnames) :
                   /\ strip(lower(fieldnames[i])) = k
                   /\ \A j \in (i + 1)..Len(fieldnames) : strip(lower(fieldnames[j])) # k]

\* the key index of the first <<candidate, key>> pair of the loop "for c in
\* cands: for k in keys" that is in pairs; 0 when there is none
FirstPair(pairs) ==
    IF pairs = {} THEN 0
    ELSE (CHOOSE p \in pairs : \A q \in pairs : p[1] < q[1] \/ (p[1] = q[1] /\ p[2] <= q[2]))[2]

\* find_key of autodetect_columns; <<>> is None
find_key(fieldnames, cands) ==
    LET keys == fn_lower_keys(fieldnames)
        all == (1..Len(cands)) \X (1..Len(keys))
        k1 == FirstPair({p \in all : keys[p[2]] = cands[p[1]] \/ startswith(keys[p[2]], cands[p[1]])})
        k2 == FirstPair({p \in all : contains(keys[p[2]], cands[p[1]])})
    IN  IF k1 > 0 THEN fn_lower_value(fieldnames, keys[k1])
        ELSE IF k2 > 0 THEN fn_lower_value(fieldnames, keys[k2])
        ELSE <<>>

autodetect_columns(fieldnames) ==
    [date |-> find_key(fieldnames, LIKELY_DATE_KEYS),
     time |-> find_key(fieldnames, LIKELY_TIME_KEYS),
     type |-> find_key(fieldnames, LIKELY_TYPE_KEYS),
     name |-> find_key(fieldnames, LIKELY_NAME_KEYS)]

\* ------------------------------------------------------------------------
\* State
\* ------------------------------------------------------------------------

VARIABLES
    pc,                 \* where the run of the summary script is
    status,             \* "running", "exit 0" or "exit 1"
    fieldnames,         \* the CSV's header row (csv.DictReader.fieldnames)
    csv_rows,           \* the CSV's data rows, one cell per header
    cols,               \* load_sessions: the detected columns
    line,               \* load_sessions: the number of data rows read
    current_date_d,     \* load_sessions
    rows,               \* load_sessions: the sessions kept so far
    day_buckets,        \* partition_by_day's result, in dict order
    day_id_registries,  \* render_table: the set of issued IDs of each day
    cells,              \* render_table: the cells of the grid in DOM order
    stderr,             \* the messages printed to stderr
    stdout,             \* what the summary script wrote: "" or "html"
    slots,              \* the detailed page: the slot elements, in order
    call,               \* the argument of a function under test
    ret,                \* its result
    registries          \* the ID registries of the two renderers under test

vars == <<pc, status, fieldnames, csv_rows, cols, line, current_date_d, rows, day_buckets,
          day_id_registries, cells, stderr, stdout, slots, call, ret, registries>>

\* ------------------------------------------------------------------------
\* generate_schedule_summary_table.py: load_sessions
\* ------------------------------------------------------------------------

\* r.get(col, ""): csv.DictReader zips the header with the row, the last of
\* equal headers wins
row_get(r, col) ==
    LET at == {i \in 1..Len(fieldnames) : fieldnames[i] = col /\ i <= Len(r)}
    IN  IF at = {} THEN <<>> ELSE r[CHOOSE i \in at : \A j \in at : j <= i]

\* a variant that reports the roles absent from the dict, of which there are none
missing_roles_absent_keys(c) ==
    SelectSeq(<<"date", "time", "type", "name">>, LAMBDA k : k \notin DOMAIN c)

\* the roles, in the order of the dict autodetect_columns returns, left without a column
missing_roles(c) ==
    SelectSeq(<<"date", "time", "type", "name">>, LAMBDA k : c[k] = <<>>)

\* a variant that forgets the date at a blank date cell
updated_date_no_carry(r, cur) ==
    IF strip(row_get(r, cols.date)) # <<>>
    THEN parse_date(strip(row_get(r, cols.date))) ELSE NoDate

\* current_date_d after the date cell of row r is read
updated_date(r, cur) ==
    IF strip(row_get(r, cols.date)) # <<>>
    THEN parse_date(strip(row_get(r, cols.date))) ELSE cur

\* a variant that keeps rows without any usable time
load_row_keep_untimed(r, n, cur, acc) ==
    Value({LET typ == strip(row_get(r, cols.type))
               name == strip(row_get(r, cols.name))
               paper == startswith(lower(typ), <<"p","a","p","e","r"," ","s","e","s","s","i","o","n">>)
           IN  [raised |-> FALSE, current_date_d |-> date_d,
                rows |-> IF typ = <<>> /\ name = <<>> THEN acc
                         ELSE Append(acc, [date_d |-> date_d,
                                           day_label |-> human_day_label_from_date(date_d),
                                           start |-> se[1], end |-> se[2],
                                           title |-> IF paper THEN <<>> ELSE typ,
                                           code |-> IF paper THEN typ ELSE <<>>,
                                           name |-> name, row |-> n])]
           : date_d \in {updated_date(r, cur)},
             se \in {parse_time_range(strip(row_get(r, cols.time)))}})

\* one pass of the loop over the reader: r is data row n, cur the date carried
\* over, acc the sessions kept; raised tells that an exception left the loop
load_row(r, n, cur, acc) ==
    Value({LET typ == strip(row_get(r, cols.type))
               name == strip(row_get(r, cols.name))
               paper == startswith(lower(typ), <<"p","a","p","e","r"," ","s","e","s","s","i","o","n">>)
           IN  IF ValueError \in {se[1], se[2]}
               THEN [raised |-> TRUE, current_date_d |-> date_d, rows |-> acc]
               ELSE [raised |-> FALSE, current_date_d |-> date_d,
                     rows |-> IF typ = <<>> /\ name = <<>> THEN acc
                              ELSE IF se[1] = NoTime /\ se[2] = NoTime THEN acc
                              ELSE Append(acc, [date_d |-> date_d,
                                                day_label |-> human_day_label_from_date(date_d),
                                                start |-> se[1], end |-> se[2],
                                                title |-> IF paper THEN <<>> ELSE typ,
                                                code |-> IF paper THEN typ ELSE <<>>,
                                                name |-> name, row |-> n])]
           : date_d \in {updated_date(r, cur)},
             se \in {parse_time_range(strip(row_get(r, cols.time)))}})

\* ------------------------------------------------------------------------
\* generate_schedule_summary_table.py: partition_by_day, group_parallel
\* ------------------------------------------------------------------------

\* the distinct values of seq, each at its first occurrence (dict key order)
RECURSIVE first_seen(_)
first_seen(seq) ==
    IF seq = <<>> THEN <<>>
    ELSE LET n == Len(seq)
             head == first_seen(Slice(seq, 1, n - 1))
         IN  IF \E i \in 1..Len(head) : head[i] = seq[n] THEN head ELSE head \o <<seq[n]>>

\* the sort key (start, end, code, name, title), absent times as 00:00
full_key(x) ==
    << <<or_midnight(x.start)>>, <<or_midnight(x.end)>>, ords(x.code), ords(x.name), ords(x.title) >>

\* the sort key (start, end)
time_key(x) == << <<or_midnight(x.start)>>, <<or_midnight(x.end)>> >>

\* a variant whose evening bucket takes the lunch sessions too
partition_by_day_evening_with_lunch(sessions) ==
    LET labels == first_seen([i \in 1..Len(sessions) |-> sessions[i].day_label])
        by_full(l) == sorted(l, [i \in 1..Len(l) |-> full_key(l[i])])
        by_time(l) == sorted(l, [i \in 1..Len(l) |-> time_key(l[i])])
        day(label) ==
            LET lst == SelectSeq(sessions, LAMBDA x : x.day_label = label)
            IN  [header |-> label,
                 morning |-> by_full(SelectSeq(lst, LAMBDA x : is_morning(x) /\ ~is_lunch(x))),
                 lunch |-> by_time(SelectSeq(lst, LAMBDA x : is_lunch(x))),
                 afternoon |-> by_full(SelectSeq(lst, LAMBDA x : is_afternoon(x))),
                 evening |-> by_time(SelectSeq(lst, LAMBDA x : is_evening(x)))]
    IN  [k \in 1..Len(labels) |-> day(labels[k])]

partition_by_day(sessions) ==
    LET labels == first_seen([i \in 1..Len(sessions) |-> sessions[i].day_label])
        by_full(l) == sorted(l, [i \in 1..Len(l) |-> full_key(l[i])])
        by_time(l) == sorted(l, [i \in 1..Len(l) |-> time_key(l[i])])
        day(label) ==
            LET lst == SelectSeq(sessions, LAMBDA x : x.day_label = label)
            IN  [header |-> label,
                 morning |-> by_full(SelectSeq(lst, LAMBDA x : is_morning(x) /\ ~is_lunch(x))),
                 lunch |-> by_time(SelectSeq(lst, LAMBDA x : is_lunch(x))),
                 afternoon |-> by_full(SelectSeq(lst, LAMBDA x : is_afternoon(x))),
                 evening |-> by_time(SelectSeq(lst, LAMBDA x : is_evening(x) /\ ~is_lunch(x)))]
    IN  [k \in 1..Len(labels) |-> day(labels[k])]

\* a variant that does not pad the hour: "%-H:%M"
strftime_HM_unpadded(t) ==
    decimal(t \div 60) \o <<":">> \o dd(t % 60)

\* time.strftime("%H:%M")
strftime_HM(t) ==
    dd(t \div 60) \o <<":">> \o dd(t % 60)

\* a variant that groups by the start time alone
group_parallel_by_start(sessions) ==
    LET key(x) == <<ords(strftime_HM(or_midnight(x.start)))>>
        keys == first_seen([i \in 1..Len(sessions) |-> key(sessions[i])])
        group(k) == LET items == SelectSeq(sessions, LAMBDA x : key(x) = k)
                    IN  sorted(items, [i \in 1..Len(items) |->
                                          <<ords(items[i].code), ords(items[i].name), ords(items[i].title)>>])
    IN  sorted([i \in 1..Len(keys) |-> group(keys[i])], keys)

group_parallel(sessions) ==
    LET key(x) == <<ords(strftime_HM(or_midnight(x.start))), ords(strftime_HM(or_midnight(x.end)))>>
        keys == first_seen([i \in 1..Len(sessions) |-> key(sessions[i])])
        group(k) == LET items == SelectSeq(sessions, LAMBDA x : key(x) = k)
                    IN  sorted(items, [i \in 1..Len(items) |->
                                          <<ords(items[i].code), ords(items[i].name), ords(items[i].title)>>])
    IN  sorted([i \in 1..Len(keys) |-> group(keys[i])], keys)

\* ------------------------------------------------------------------------
\* generate_schedule_summary_table.py: cell_div_html, render_table
\* ------------------------------------------------------------------------

\* [href, registry]: the link target and the day's registry after the call
session_anchor_href(s, day_registry) ==
    Value({[href |-> <<"#">> \o r.anchor, registry |-> r.registry]
           : r \in {make_fullschedule_anchor(weekday_anchor_from_date(s.date_d),
                                             format_time_range(s.start, s.end),
                                             id_type(s),
                                             IF s.code # <<>> THEN s.name ELSE <<>>,
                                             day_registry)}})

\* the loop of cell_div_html from entry i on: [items, registry].  An item is
\* one <div class="session-item">: its link target, the time heading it shows
\* and the texts of its session heading; row is the CSV row it comes from
RECURSIVE cell_items(_, _, _)
cell_items(group, i, day_registry) ==
    IF i > Len(group) THEN [items |-> <<>>, registry |-> day_registry]
    ELSE LET s == group[i]
             paper == css_class(group[1]) = "paper-sessions" /\ s.code # <<>>
             item(href) ==
                 [href |-> escape_html(href),
                  time_h3 |-> IF i = 1
                              THEN escape_html(format_time_range(group[1].start, group[1].end))
                              ELSE <<>>,
                  session_code |-> IF paper THEN escape_html(s.code) ELSE <<>>,
                  session_name |-> IF paper THEN escape_html(s.name) ELSE <<>>,
                  session_type |-> IF paper THEN <<>> ELSE escape_html(s.title),
                  row |-> s.row]
         IN  Value({Value({[items |-> <<item(link.href)>> \o rest.items,
                            registry |-> rest.registry]
                           : rest \in {cell_items(group, i + 1, link.registry)}})
                    \* first is the call ahead of the branch; the non-paper
                    \* branch takes the poster page or calls once more
                    : link \in {Value({IF paper THEN first
                                       ELSE IF poster_href # <<>>
                                       THEN [href |-> poster_href, registry |-> first.registry]
                                       ELSE session_anchor_href(s, first.registry)
                                       : first \in {session_anchor_href(s, day_registry)},
                                         poster_href \in {poster_session_external_href(s.title)}})}})

\* sep.join(parts)
RECURSIVE join(_, _)
join(sep, parts) ==
    IF parts = <<>> THEN <<>>
    ELSE IF Len(parts) = 1 THEN parts[1]
    ELSE parts[1] \o sep \o join(sep, Tail(parts))

\* [cell, registry]: the cell of a group of parallel sessions
cell_div_html(group, day_registry, day_label) ==
    LET _aria_for_session(x) == IF x.code # <<>>
                                THEN (IF x.name # <<>> THEN x.code \o <<" ", "EM", " ">> \o x.name
                                      ELSE x.code)
                                ELSE x.title
        aria_label == day_label \o <<",", " ">>
                      \o format_time_range(group[1].start, group[1].end) \o <<":", " ">>
                      \o join(<<" ", "|", " ">>,
                              SelectSeq([i \in 1..Len(group) |-> _aria_for_session(group[i])],
                                        LAMBDA a : a # <<>>))
    IN  Value({[cell |-> [class |-> "schedule-grid-td", css |-> css_class(group[1]),
                          day |-> day_label, items |-> r.items, text |-> <<>>,
                          aria_label |-> escape_html(aria_label)],
                registry |-> r.registry]
               : r \in {cell_items(group, 1, day_registry)}})

\* max(..., default=0)
Max(S) == IF S = {} THEN 0 ELSE CHOOSE x \in S : \A y \in S : y <= x

\* a variant that leaves the label out
empty_cell_unlabelled(day_label, aria_label) ==
    [class |-> "schedule-grid-td", css |-> "empty-cell", day |-> day_label,
     items |-> <<>>, text |-> <<>>, aria_label |-> <<>>]

\* a placeholder cell
empty_cell(day_label, aria_label) ==
    [class |-> "schedule-grid-td", css |-> "empty-cell", day |-> day_label,
     items |-> <<>>, text |-> <<>>, aria_label |-> aria_label]

\* the cells of rows first..(first + count - 1) of one day column, a cell per
\* group and placeholders below: [cells, registry]
RECURSIVE segment_cells(_, _, _, _, _, _, _)
segment_cells(groups, r, count, first, col, day_registry, day_label) ==
    IF r >= count THEN [cells |-> <<>>, registry |-> day_registry]
    ELSE Value({Value({[cells |-> <<c.cell @@ [gc |-> col, gr |-> first + r]>> \o rest.cells,
                        registry |-> rest.registry]
                       : rest \in {segment_cells(groups, r + 1, count, first, col,
                                                 c.registry, day_label)}})
                : c \in {IF r < Len(groups)
                         THEN cell_div_html(groups[r + 1], day_registry, day_label)
                         ELSE [cell |-> empty_cell(day_label, <<"E","m","p","t","y">>),
                               registry |-> day_registry]}})

\* "d0 or date.min" of the day's first session, for the order of the days
first_date(b) ==
    LET any_list == IF b.morning # <<>> THEN b.morning ELSE IF b.lunch # <<>> THEN b.lunch
                    ELSE IF b.afternoon # <<>> THEN b.afternoon ELSE b.evening
    IN  IF any_list = <<>> \/ any_list[1].date_d = NoDate THEN <<1, 1, 1>> ELSE any_list[1].date_d

\* a variant that keeps the days in the order they were first seen
ordered_keys_as_inserted(buckets) ==
    buckets

\* the days in the order of their columns: sorted by (d0 or date.min, label)
ordered_keys(buckets) ==
    sorted(buckets, [k \in 1..Len(buckets) |-> <<first_date(buckets[k]), ords(buckets[k].header)>>])

\* one pass of the loop over the days: the cells of day b in column k and
\* the day's registry after them
render_column(k, b, mgroups, agroups, egroups, morning_max, afternoon_max, evening_max) ==
    LET ROW_HEADER == 1
        ROW_MORNING_START == ROW_HEADER + 1
        ROW_LUNCH == ROW_MORNING_START + morning_max
        ROW_AFTERNOON_START == ROW_LUNCH + 1
        ROW_EVENING_START == ROW_AFTERNOON_START + afternoon_max
        lunches == b.lunch
        th == [class |-> "schedule-grid-th", css |-> "", day |-> b.header, items |-> <<>>,
               text |-> escape_html(b.header), aria_label |-> <<>>, gc |-> k, gr |-> ROW_HEADER]
    IN  Value({Value({Value({Value({
            [cells |-> <<th>> \o m.cells \o <<l.cell @@ [gc |-> k, gr |-> ROW_LUNCH]>>
                       \o a.cells \o e.cells,
             label |-> b.header, registry |-> e.registry]
            : e \in {segment_cells(egroups, 0, evening_max, ROW_EVENING_START, k,
                                   a.registry, b.header)}})
            : a \in {segment_cells(agroups, 0, afternoon_max, ROW_AFTERNOON_START, k,
                                   l.registry, b.header)}})
            : l \in {IF lunches # <<>>
                     THEN cell_div_html(
                              <<sorted(lunches, [i \in 1..Len(lunches) |-> time_key(lunches[i])])[1]>>,
                              m.registry, b.header)
                     ELSE [cell |-> empty_cell(b.header,
                                               <<"N","o"," ","l","u","n","c","h"," ","s","l","o","t">>),
                           registry |-> m.registry]}})
            : m \in {segment_cells(mgroups, 0, morning_max, ROW_MORNING_START, k, {}, b.header)}})

\* [cells, registries]: the grid's cells in DOM order and each day's registry
render_table(buckets) ==
    Value({LET n == Len(ordered)
               mornings == [k \in 1..n |-> group_parallel(ordered[k].morning)]
               afternoons == [k \in 1..n |-> group_parallel(ordered[k].afternoon)]
               evenings == [k \in 1..n |-> group_parallel(ordered[k].evening)]
               morning_max == Max({Len(mornings[k]) : k \in 1..n})
               afternoon_max == Max({Len(afternoons[k]) : k \in 1..n})
               evening_max == Max({Len(evenings[k]) : k \in 1..n})
               RECURSIVE cells_of(_)
               cells_of(cs) == IF cs = <<>> THEN <<>> ELSE cs[1].cells \o cells_of(Tail(cs))
           IN  Value({[cells |-> cells_of(columns),
                       registries |-> [k \in 1..n |-> [label |-> columns[k].label,
                                                       registry |-> columns[k].registry]]]
                      : columns \in {[k \in 1..n |->
                                        render_column(k, ordered[k], mornings[k], afternoons[k],
                                                      evenings[k], morning_max, afternoon_max,
                                                      evening_max)]}})
           : ordered \in {ordered_keys(buckets)}})

\* ------------------------------------------------------------------------
\* generate_full_schedule.py: the slot elements of the detailed page
\* ------------------------------------------------------------------------

Date == <<"D","a","t","e">>

SessionType == <<"S","e","s","s","i","o","n"," ","T","y","p","e">>

SessionName == <<"S","e","s","s","i","o","n"," ","N","a","m","e">>

TimeMT == <<"T","i","m","e"," ","(","M","T",")">>

\* safe_cell_str(row, colname) on the frame pandas reads: an empty cell is
\* NaN, of equal column names the first keeps its name
safe_cell_str(names, r, colname) ==
    LET at == {i \in 1..Len(names) : names[i] = colname /\ i <= Len(r)}
    IN  IF at = {} THEN <<>> ELSE strip(r[CHOOSE i \in at : \A j \in at : i <= j])

\* df["Date"].ffill(): the date cell of data row n, or of the nearest row
\* above that has one; <<>> is NaN
RECURSIVE ffill_date(_, _, _)
ffill_date(names, data, n) ==
    IF n < 1 THEN <<>>
    ELSE LET at == {i \in 1..Len(names) : names[i] = Date}
             v == data[n][CHOOSE i \in at : \A j \in at : i <= j]
         IN  IF v # <<>> THEN v ELSE ffill_date(names, data, n - 1)

\* render_time_slot over one day's rows in order: the slot elements
RECURSIVE day_slots(_, _, _, _, _)
day_slots(names, data, kept, day_anchor, id_registry) ==
    IF kept = <<>> THEN <<>>
    ELSE LET n == kept[1]
             row == data[n]
             cell == safe_cell_str(names, row, TimeMT \o <<" ">>)
         IN  Value({<<[id |-> r.anchor, day |-> day_anchor, row |-> n]>>
                    \o day_slots(names, data, Tail(kept), day_anchor, r.registry)
                    : r \in {make_slot_id(day_anchor,
                                          normalize_time_range(
                                              IF cell # <<>> THEN cell
                                              ELSE safe_cell_str(names, row, TimeMT)),
                                          safe_cell_str(names, row, SessionType),
                                          safe_cell_str(names, row, SessionName),
                                          id_registry)}})

\* main() of the detailed page on the same CSV: [raised, slots]
full_schedule(names, data) ==
    LET has(col) == \E i \in 1..Len(names) : names[i] = col
        all == [n \in 1..Len(data) |-> n]
        \* rows with a session type, then grouped by the filled date, NaN dropped
        typed == SelectSeq(all, LAMBDA n : strip(safe_cell_str(names, data[n], SessionType)) # <<>>)
        dated == SelectSeq(typed, LAMBDA n : ffill_date(names, data, n) # <<>>)
        days == first_seen([k \in 1..Len(dated) |-> ffill_date(names, data, dated[k])])
        RECURSIVE concat(_)
        concat(ss) == IF ss = <<>> THEN <<>> ELSE ss[1] \o concat(Tail(ss))
    IN  IF ~has(Date) \/ ~has(SessionType) THEN [raised |-> TRUE, slots |-> <<>>]
        ELSE [raised |-> FALSE,
              slots |-> concat([k \in 1..Len(days) |->
                          day_slots(names, data,
                                    SelectSeq(dated, LAMBDA n : ffill_date(names, data, n) = days[k]),
                                    date_anchor_id(days[k]), {})])]

\* ------------------------------------------------------------------------
\* The CSV files the scripts are run on
\* ------------------------------------------------------------------------

\* the paper session of the README's example
R1 ==
    << <<"1","0","/","2","7","/","2","0","2","5">>,
       <<"9",":","0","0"," ","A","M","-","1","0",":","4","5"," ","A","M">>,
       <<"P","a","p","e","r"," ","S","e","s","s","i","o","n"," ","1","A">>,
       <<"I","n","c","l","u","s","i","v","e"," ","M","i","x","e","d"," ","R","e","a","l","i","t","y">> >>

\* a parallel paper session
R2 ==
    << <<>>,
       <<"9",":","0","0"," ","A","M","-","1","0",":","4","5"," ","A","M">>,
       <<"P","a","p","e","r"," ","S","e","s","s","i","o","n"," ","1","B">>,
       <<"X">> >>

\* a break
R3 ==
    << <<>>,
       <<"1","0",":","4","5"," ","A","M","-","1","1",":","1","5"," ","A","M">>,
       <<"C","o","f","f","e","e"," ","B","r","e","a","k">>,
       <<>> >>

\* the same break typed differently
R4 ==
    << <<>>,
       <<"1","0",":","4","5"," ","A","M"," ","-"," ","1","1",":","1","5"," ","A","M">>,
       <<"c","o","f","f","e","e","-","b","r","e","a","k">>,
       <<>> >>

\* an untimed poster session
R5 ==
    << <<>>,
       <<"T","B","D">>,
       <<"C","o","f","f","e","e"," ","B","r","e","a","k"," ","&"," ","P","o","s","t","e","r"," ","S","e","s","s","i","o","n"," ","A">>,
       <<>> >>

\* a lunch
R6 ==
    << <<"1","0","/","2","8","/","2","0","2","5">>,
       <<"1","2",":","0","0"," ","P","M","-","1",":","0","0"," ","P","M">>,
       <<"L","u","n","c","h">>,
       <<>> >>

\* a panel at the lunch's time
R7 ==
    << <<>>,
       <<"1","2",":","0","0"," ","P","M","-","1",":","0","0"," ","P","M">>,
       <<"P","a","n","e","l">>,
       <<>> >>

\* a blank row
R8 ==
    << <<>>,
       <<>>,
       <<>>,
       <<>> >>

\* a row whose date and time do not parse
R9 ==
    << <<"O","c","t"," ","2","7">>,
       <<"n","o","o","n","i","s","h">>,
       <<"T","a","l","k">>,
       <<>> >>

\* a session with a start only
R10 ==
    << <<>>,
       <<"9",":","0","0"," ","A","M">>,
       <<"P","a","n","e","l">>,
       <<>> >>

\* a session ending at midnight
R11 ==
    << <<>>,
       <<"9",":","0","0"," ","A","M","-","1","2",":","0","0"," ","A","M">>,
       <<"K","e","y","n","o","t","e">>,
       <<>> >>

\* a timed poster session
R12 ==
    << <<>>,
       <<"3",":","0","0"," ","P","M","-","4",":","0","0"," ","P","M">>,
       <<"P","o","s","t","e","r"," ","S","e","s","s","i","o","n"," ","A">>,
       <<>> >>

RowPool == {R1, R2, R3, R4, R5, R6, R7, R8, R9, R10, R11, R12}

\* the header row of the conference's content.csv
CanonicalHeader == <<Date, TimeMT, SessionType, SessionName>>

\* a header row with no time-like column
NoTimeHeader == <<Date, <<"N","o","t","e","s">>, SessionType, SessionName>>

\* a header row in other words, which autodetect_columns still resolves
LooseHeader == <<<<"W","h","e","n">>, <<" ","T","i","m","e">>, <<"T","y","p","e">>, <<"T","r","a","c","k"," ","/"," ","N","a","m","e">>>>

MaxRows == 2

\* sequences over S of length at most n
SeqsUpTo(S, n) == UNION {[1..k -> S] : k \in 0..n}

\* a file is its header row and its data rows; an empty file has neither
CsvFiles ==
    {[fieldnames |-> CanonicalHeader, csv_rows |-> rs] : rs \in SeqsUpTo(RowPool, MaxRows)}
    \cup {[fieldnames |-> h, csv_rows |-> rs] : h \in {NoTimeHeader, LooseHeader}, rs \in SeqsUpTo({R1, R9}, 1)}
    \cup {[fieldnames |-> <<>>, csv_rows |-> <<>>]}

\* ------------------------------------------------------------------------
\* The run of the two scripts on one CSV file
\* ------------------------------------------------------------------------

NoCols == [date |-> <<>>, time |-> <<>>, type |-> <<>>, name |-> <<>>]

Idle ==
    /\ cols = NoCols /\ line = 0 /\ current_date_d = NoDate /\ rows = <<>>
    /\ day_buckets = <<>> /\ day_id_registries = <<>> /\ cells = <<>>
    /\ stderr = <<>> /\ stdout = "" /\ slots = <<>>

Init ==
    /\ pc = "open" /\ status = "running"
    /\ \E f \in CsvFiles : fieldnames = f.fieldnames /\ csv_rows = f.csv_rows
    /\ Idle
    /\ call = <<>> /\ ret = <<>> /\ registries = <<>>

\* main()'s except branch: print(f"Error reading CSV: {e}", file=sys.stderr); sys.exit(1)
Exit1(e) ==
    /\ stderr' = Append(stderr, e)
    /\ status' = "exit 1"
    /\ pc' = "full"

\* load_sessions up to the loop: the header is read and the columns detected
OpenCsv ==
    /\ pc = "open"
    /\ \E c \in {autodetect_columns(fieldnames)} :
           IF fieldnames = <<>>
           THEN /\ Exit1([text |-> "CSV has no header.", roles |-> <<>>, headers |-> <<>>])
                /\ UNCHANGED cols
           ELSE IF missing_roles(c) # <<>>
           THEN /\ Exit1([text |-> "Could not detect columns for: {roles}. Found headers: {headers}",
                          roles |-> missing_roles(c), headers |-> fieldnames])
                /\ cols' = c
           ELSE /\ cols' = c
                /\ pc' = "load"
                /\ UNCHANGED <<status, stderr>>
    /\ UNCHANGED <<fieldnames, csv_rows, line, current_date_d, rows, day_buckets,
                   day_id_registries, cells, stdout, slots, call, ret, registries>>

\* one iteration of "for r in reader"
LoadRow ==
    /\ pc = "load"
    /\ line < Len(csv_rows)
    /\ \E r \in {load_row(csv_rows[line + 1], line + 1, current_date_d, rows)} :
           /\ line' = line + 1
           /\ current_date_d' = r.current_date_d
           /\ rows' = r.rows
           /\ IF r.raised
              THEN Exit1([text |-> "ValueError", roles |-> <<>>, headers |-> <<>>])
              ELSE UNCHANGED <<pc, status, stderr>>
    /\ UNCHANGED <<fieldnames, csv_rows, cols, day_buckets, day_id_registries, cells,
                   stdout, slots, call, ret, registries>>

\* the reader is exhausted: load_sessions returns and main() partitions
PartitionByDay ==
    /\ pc = "load"
    /\ line = Len(csv_rows)
    /\ day_buckets' = partition_by_day(rows)
    /\ pc' = "render"
    /\ UNCHANGED <<status, fieldnames, csv_rows, cols, line, current_date_d, rows,
                   day_id_registries, cells, stderr, stdout, slots, call, ret, registries>>

\* main() renders the table, writes it and returns
RenderTable ==
    /\ pc = "render"
    /\ \E t \in {render_table(day_buckets)} :
           /\ cells' = t.cells
           /\ day_id_registries' = t.registries
    /\ stdout' = "html"
    /\ status' = "exit 0"
    /\ pc' = "full"
    /\ UNCHANGED <<fieldnames, csv_rows, cols, line, current_date_d, rows, day_buckets,
                   stderr, slots, call, ret, registries>>

\* generate_full_schedule.py is run on the same file
FullSchedule ==
    /\ pc = "full"
    /\ slots' = full_schedule(fieldnames, csv_rows).slots
    /\ pc' = "done"
    /\ UNCHANGED <<status, fieldnames, csv_rows, cols, line, current_date_d, rows, day_buckets,
                   day_id_registries, cells, stderr, stdout, call, ret, registries>>

Next ==
    \/ OpenCsv
    \/ LoadRow
    \/ PartitionByDay
    \/ RenderTable
    \/ FullSchedule

Spec == Init /\ [][Next]_vars

\* ------------------------------------------------------------------------
\* parse_time_range on its own
\* ------------------------------------------------------------------------

ClockTexts == {<<"1",":","0","0">>, <<"2",":","3","0">>, <<"9",":","0","0">>, <<"1","2",":","1","5">>}

DashTexts == {<<"-">>, <<"EN">>, <<"EM">>, <<" ","-"," ">>}

MeridiemTexts == {<<" ","A","M">>, <<" ","P","M">>, <<"p","m">>}

\* a clock time, a dash, a clock time, each side with or without AM/PM
TimeTexts ==
    {l \o lm \o d \o r \o rm : l \in ClockTexts, lm \in MeridiemTexts \cup {<<>>},
                               d \in DashTexts,
                               r \in ClockTexts, rm \in MeridiemTexts \cup {<<>>}}
    \cup {<<>>, TBD}

InitTime ==
    /\ pc = "time" /\ status = "running"
    /\ fieldnames = <<>> /\ csv_rows = <<>>
    /\ Idle
    /\ call \in TimeTexts /\ ret = <<>> /\ registries = <<>>

\* start, end = parse_time_range(time_raw)
ParseTimeRange ==
    /\ pc = "time"
    /\ ret' = parse_time_range(call)
    /\ pc' = "timed"
    /\ UNCHANGED <<status, fieldnames, csv_rows, cols, line, current_date_d, rows, day_buckets,
                   day_id_registries, cells, stderr, stdout, slots, call, registries>>

NextTime ==
    \/ ParseTimeRange

SpecTime == InitTime /\ [][NextTime]_vars

\* ------------------------------------------------------------------------
\* autodetect_columns on its own
\* ------------------------------------------------------------------------

HeaderPool ==
    {Date, <<"D","a","t","e"," ","r","a","n","g","e">>, <<"U","p","d","a","t","e">>, TimeMT, <<"T","i","m","e"," ","z","o","n","e">>, <<" ","s","e","s","s","i","o","n"," ","t","y","p","e"," ">>, <<"N","a","m","e">>}

MaxHeaders == 3

InitDetect ==
    /\ pc = "detect" /\ status = "running"
    /\ fieldnames \in SeqsUpTo(HeaderPool, MaxHeaders) /\ csv_rows = <<>>
    /\ Idle
    /\ call = <<>> /\ ret = <<>> /\ registries = <<>>

\* cols = autodetect_columns(reader.fieldnames)
Detect ==
    /\ pc = "detect"
    /\ cols' = autodetect_columns(fieldnames)
    /\ pc' = "detected"
    /\ UNCHANGED <<status, fieldnames, csv_rows, line, current_date_d, rows, day_buckets,
                   day_id_registries, cells, stderr, stdout, slots, call, ret, registries>>

NextDetect ==
    \/ Detect

SpecDetect == InitDetect /\ [][NextDetect]_vars

\* ------------------------------------------------------------------------
\* The two ID functions called side by side, each on its own registry
\* ------------------------------------------------------------------------

\* arguments (day_anchor, time_text, session_type, session_name)
AnchorInputs ==
    {[day |-> <<"m","o","n","d","a","y">>, time |-> <<"1","0",":","4","5"," ","A","M"," ","-"," ","1","1",":","1","5"," ","A","M">>, type |-> <<"C","o","f","f","e","e"," ","B","r","e","a","k">>, name |-> <<>>],
     [day |-> <<"m","o","n","d","a","y">>, time |-> <<"1","0",":","4","5"," ","A","M","-","1","1",":","1","5"," ","A","M">>, type |-> <<"c","o","f","f","e","e","-","b","r","e","a","k">>, name |-> <<>>],
     [day |-> <<"m","o","n","d","a","y">>, time |-> <<"1",":","0","0"," ","EN"," ","2",":","3","0"," ","P","M">>, type |-> <<"P","a","p","e","r"," ","S","e","s","s","i","o","n"," ","1","A">>, name |-> <<"C","a","f","E_ACUTE"," ","&"," ","C","o">>],
     [day |-> <<"m","o","n","d","a","y">>, time |-> <<"1",":","0","0"," ","P","M"," ","EM"," ","2",":","3","0"," ","P",".","M",".">>, type |-> <<"P","a","p","e","r"," ","S","e","s","s","i","o","n"," ","1","A">>, name |-> <<"c","a","f","e"," ","c","o">>],
     [day |-> <<"m","o","n","d","a","y">>, time |-> TBD, type |-> <<"P","o","s","t","e","r","s">>, name |-> <<>>],
     [day |-> <<"m","o","n","d","a","y">>, time |-> <<"n","o","o","n","-","i","s","h">>, type |-> <<"P","o","s","t","e","r","s">>, name |-> <<>>],
     [day |-> <<"m","o","n","d","a","y">>, time |-> <<>>, type |-> <<>>, name |-> <<>>],
     [day |-> <<>>, time |-> <<>>, type |-> <<>>, name |-> <<>>],
     [day |-> <<>>, time |-> <<>>, type |-> <<"EN">>, name |-> <<"E_ACUTE">>],
     [day |-> <<>>, time |-> <<"9"," ","A","M">>, type |-> <<"T","i","m","e","s","l","o","t">>, name |-> <<>>]}

MaxCalls == 3

InitAnchor ==
    /\ pc = "ids" /\ status = "running"
    /\ fieldnames = <<>> /\ csv_rows = <<>>
    /\ Idle
    /\ call = <<>> /\ ret = <<>> /\ registries = [grid |-> {}, full |-> {}]

\* one more session: the grid asks make_fullschedule_anchor, the detailed
\* page make_slot_id, with the same arguments
MakeIds ==
    /\ pc = "ids"
    /\ Len(call) < MaxCalls
    /\ \E a \in AnchorInputs :
           \E g \in {make_fullschedule_anchor(a.day, a.time, a.type, a.name, registries.grid)},
              f \in {make_slot_id(a.day, a.time, a.type, a.name, registries.full)} :
               /\ call' = Append(call, a)
               /\ ret' = <<g.anchor, f.anchor>>
               /\ registries' = [grid |-> g.registry, full |-> f.registry]
    /\ UNCHANGED <<pc, status, fieldnames, csv_rows, cols, line, current_date_d, rows,
                   day_buckets, day_id_registries, cells, stderr, stdout, slots>>

NextAnchor ==
    \/ MakeIds

SpecAnchor == InitAnchor /\ [][NextAnchor]_vars

\* ------------------------------------------------------------------------
\* Properties of the run on one CSV file
\* ------------------------------------------------------------------------

Range(seq) == {seq[i] : i \in DOMAIN seq}

\* the positions <<cell, entry>> of the session entries of the grid
Entries == UNION {{<<i, a>> : a \in 1..Len(cells[i].items)} : i \in 1..Len(cells)}

Entry(p) == cells[p[1]].items[p[2]]

\* the entries that come from CSV row n
PlacesOf(n) == {p \in Entries : Entry(p).row = n}

\* a link to an anchor of the detailed page, as opposed to a poster page
InPage(href) == href # <<>> /\ href[1] = "#"

BucketSessions(b) == Range(b.morning) \cup Range(b.lunch) \cup Range(b.afternoon) \cup Range(b.evening)

\* the rows read so far whose time cell gives neither a start nor an end
Untimed ==
    {n \in 1..line : parse_time_range(strip(row_get(csv_rows[n], cols.time))) = <<NoTime, NoTime>>}

\* the ID a session asks for, and the IDs it can be given
BaseId(s) ==
    make_fullschedule_anchor(weekday_anchor_from_date(s.date_d), format_time_range(s.start, s.end),
                             id_type(s), IF s.code # <<>> THEN s.name ELSE <<>>, {}).anchor

IdsFrom(s) == {BaseId(s)} \cup {BaseId(s) \o <<"-", "x">> \o decimal(i) : i \in 2..(2 * Len(rows) + 1)}

\* C1: load_sessions keeps no session without both start and end: a row
\* whose time cell gives neither is in no kept session, no day bucket and no
\* grid cell, and every ID issued in a day's registry is the ID of a kept,
\* timed session of that day.
C1_UntimedRowsDropped ==
    LET untimed == Untimed
        ids == [i \in 1..Len(rows) |-> IF rows[i].row \in untimed THEN {} ELSE IdsFrom(rows[i])]
    IN  /\ \A i \in 1..Len(rows) : rows[i].start # NoTime \/ rows[i].end # NoTime
        /\ \A n \in untimed :
              /\ \A i \in 1..Len(rows) : rows[i].row # n
              /\ \A k \in 1..Len(day_buckets) : \A x \in BucketSessions(day_buckets[k]) : x.row # n
              /\ PlacesOf(n) = {}
        /\ \A k \in 1..Len(day_id_registries) : \A id \in day_id_registries[k].registry :
              \E i \in 1..Len(rows) :
                  /\ rows[i].day_label = day_id_registries[k].label
                  /\ id \in ids[i]

\* a finished run on a file with the untimed "Coffee Break & Poster Session A"
\* next to a session the grid shows
C1_Witness ==
    /\ pc = "done" /\ status = "exit 0"
    /\ \E n \in Untimed : strip(row_get(csv_rows[n], cols.type)) = <<"C","o","f","f","e","e"," ","B","r","e","a","k"," ","&"," ","P","o","s","t","e","r"," ","S","e","s","s","i","o","n"," ","A">>
    /\ Entries # {}
    /\ \E k \in 1..Len(day_id_registries) : day_id_registries[k].registry # {}

\* C2: two session links in one day column that point into the page never
\* carry the same anchor ID.
C2_AnchorsUniquePerDay ==
    \A p \in Entries : \A q \in Entries :
        (/\ p # q
         /\ cells[p[1]].gc = cells[q[1]].gc
         /\ InPage(Entry(p).href) /\ InPage(Entry(q).href))
        => Entry(p).href # Entry(q).href

\* a rendered column with two in-page links of sessions that ask for the same ID
C2_Witness ==
    /\ pc = "done"
    /\ \E p \in Entries : \E q \in Entries :
        /\ p # q
        /\ cells[p[1]].gc = cells[q[1]].gc
        /\ InPage(Entry(p).href) /\ InPage(Entry(q).href)
        /\ \E i \in 1..Len(rows) : \E j \in 1..Len(rows) :
              /\ rows[i].row = Entry(p).row /\ rows[j].row = Entry(q).row
              /\ BaseId(rows[i]) = BaseId(rows[j])

\* C3: every entry of the grid that is not a link to a poster page links to
\* "#" followed by the ID the detailed page gives the slot of the same CSV row.
C3_GridLinksResolve ==
    (pc = "done" /\ status = "exit 0") =>
        \A p \in Entries :
            InPage(Entry(p).href) =>
                \E k \in 1..Len(slots) :
                    /\ slots[k].row = Entry(p).row
                    /\ Entry(p).href = <<"#">> \o slots[k].id

\* the sort and group key of a session: its times as the grouper reads them
Window(x) == <<or_midnight(x.start), or_midnight(x.end)>>

\* C5 as stated: the sessions of one day with the same (start, end) are in
\* exactly one cell together, and the sessions of a cell have the same end.
C5_OneGroupPerDayWindow ==
    (pc = "done" /\ status = "exit 0") =>
        /\ \A i \in 1..Len(rows) : \A j \in 1..Len(rows) :
              (/\ rows[i].day_label = rows[j].day_label
               /\ rows[i].start = rows[j].start /\ rows[i].end = rows[j].end)
              => /\ Cardinality(PlacesOf(rows[i].row)) = 1
                 /\ \A p \in PlacesOf(rows[i].row) : \A q \in PlacesOf(rows[j].row) : p[1] = q[1]
        /\ \A p \in Entries : \A q \in Entries :
              p[1] = q[1] =>
                  \A i \in 1..Len(rows) : \A j \in 1..Len(rows) :
                      (rows[i].row = Entry(p).row /\ rows[j].row = Entry(q).row)
                      => rows[i].end = rows[j].end

\* C5, amended: within the morning, the afternoon or the evening bucket of a
\* day, the sessions with the same (start, end), an absent time read as
\* 00:00, are in exactly one cell together, sessions with another window are
\* in another cell, and the sessions of a cell have the same end so read.
C5_OneGroupPerBucketWindow ==
    (pc = "done" /\ status = "exit 0") =>
        /\ \A k \in 1..Len(day_buckets) :
              \A seg \in {day_buckets[k].morning, day_buckets[k].afternoon, day_buckets[k].evening} :
                  \A x \in Range(seg) : \A y \in Range(seg) :
                      /\ Cardinality(PlacesOf(x.row)) = 1
                      /\ \A p \in PlacesOf(x.row) : \A q \in PlacesOf(y.row) :
                            (Window(x) = Window(y)) <=> (p[1] = q[1])
        /\ \A p \in Entries : \A q \in Entries :
              p[1] = q[1] =>
                  \A i \in 1..Len(rows) : \A j \in 1..Len(rows) :
                      (rows[i].row = Entry(p).row /\ rows[j].row = Entry(q).row)
                      => or_midnight(rows[i].end) = or_midnight(rows[j].end)

\* a rendered day with two parallel sessions in one cell
C5_Witness ==
    /\ pc = "done" /\ status = "exit 0"
    /\ \E p \in Entries : \E q \in Entries : p[1] = q[1] /\ p[2] # q[2]

\* the roles no header matches in any of the three ways, in dict order
UnmatchedRoles ==
    LET keys(role) == CASE role = "date" -> LIKELY_DATE_KEYS
                        [] role = "time" -> LIKELY_TIME_KEYS
                        [] role = "type" -> LIKELY_TYPE_KEYS
                        [] role = "name" -> LIKELY_NAME_KEYS
    IN  SelectSeq(<<"date", "time", "type", "name">>,
                  LAMBDA role : ~\E i \in 1..Len(fieldnames) : \E c \in Range(keys(role)) :
                                      contains(strip(lower(fieldnames[i])), c))

CanonicalCols == [date |-> Date, time |-> TimeMT, type |-> SessionType, name |-> SessionName]

ColumnError ==
    [text |-> "Could not detect columns for: {roles}. Found headers: {headers}",
     roles |-> UnmatchedRoles, headers |-> fieldnames]

\* C7 as stated: the canonical headers map every role; a run on headers that
\* leave a role unmatched ends with the one error that names those roles and
\* the headers, exit code 1 and no HTML; every other run exits with code 0.
C7_ExitCodes ==
    /\ (pc # "open" /\ fieldnames = CanonicalHeader) => cols = CanonicalCols
    /\ (pc = "done" /\ UnmatchedRoles # <<>>)
       => (status = "exit 1" /\ stderr = <<ColumnError>> /\ stdout = "")
    /\ (pc = "done" /\ UnmatchedRoles = <<>>)
       => (status = "exit 0" /\ stderr = <<>> /\ stdout = "html")

\* C7, amended: as stated for a file with a header row; a file without one
\* ends with the one error "CSV has no header.", which names no role, exit
\* code 1 and no HTML.
C7_ExitCodesWithHeader ==
    /\ (pc # "open" /\ fieldnames = CanonicalHeader) => cols = CanonicalCols
    /\ (pc # "open" /\ fieldnames # <<>> /\ UnmatchedRoles # <<>>)
       => (status = "exit 1" /\ stderr = <<ColumnError>> /\ stdout = "")
    /\ (pc # "open" /\ fieldnames = <<>>)
       => /\ status = "exit 1" /\ stdout = ""
          /\ stderr = <<[text |-> "CSV has no header.", roles |-> <<>>, headers |-> <<>>]>>
    /\ (pc = "done" /\ fieldnames # <<>> /\ UnmatchedRoles = <<>>)
       => (status = "exit 0" /\ stderr = <<>> /\ stdout = "html")

\* a finished run on headers without a time-like column
C7_Witness ==
    /\ pc = "done" /\ status = "exit 1"
    /\ fieldnames = NoTimeHeader /\ csv_rows # <<>>
    /\ UnmatchedRoles = <<"time">>

\* C8: when the header lets all four roles be detected, load_sessions reads
\* every row and returns: nothing is printed on stderr and the run does not
\* exit with code 1, whatever the cells hold.
C8_LoadNeverRaises ==
    (fieldnames # <<>> /\ UnmatchedRoles = <<>>) =>
        /\ stderr = <<>> /\ status # "exit 1"
        /\ (pc \in {"render", "full", "done"} => line = Len(csv_rows))
        /\ (pc = "done" => status = "exit 0")

\* a finished run on a file with the row whose date and time do not parse,
\* followed by a row that is kept without a date
C8_Witness ==
    /\ pc = "done" /\ status = "exit 0"
    /\ \E n \in 1..Len(csv_rows) : csv_rows[n] = R9
    /\ \E i \in 1..Len(rows) : rows[i].date_d = NoDate

\* C9: the run on the one row of the README's example gives one session
\* entry, linked to #monday-paper-session-1a-inclusive-mixed-reality-0900-1045
\* and headed "9:00 AM - 10:45 AM".
C9_ReadmeExample ==
    (pc = "done" /\ fieldnames = CanonicalHeader /\ csv_rows = <<R1>>) =>
        /\ Cardinality(Entries) = 1
        /\ \A p \in Entries :
              /\ Entry(p).href = <<"#","m","o","n","d","a","y","-","p","a","p","e","r","-","s","e","s","s","i","o","n","-","1","a","-","i","n","c","l","u","s","i","v","e","-","m","i","x","e","d","-","r","e","a","l","i","t","y","-","0","9","0","0","-","1","0","4","5">>
              /\ Entry(p).time_h3 = <<"9",":","0","0"," ","A","M"," ","-"," ","1","0",":","4","5"," ","A","M">>
              /\ Entry(p).session_code = <<"P","a","p","e","r"," ","S","e","s","s","i","o","n"," ","1","A">>
              /\ Entry(p).session_name = <<"I","n","c","l","u","s","i","v","e"," ","M","i","x","e","d"," ","R","e","a","l","i","t","y">>

C9_Witness ==
    /\ pc = "done" /\ status = "exit 0"
    /\ fieldnames = CanonicalHeader /\ csv_rows = <<R1>>
    /\ Entries # {}

\* ------------------------------------------------------------------------
\* Properties of the functions on their own
\* ------------------------------------------------------------------------

\* C4: after every sequence of calls with equal arguments the two functions
\* have returned the same ID and their registries hold the same IDs.
C4_SameIds ==
    /\ registries.grid = registries.full
    /\ ret # <<>> => ret[1] = ret[2]

\* the same arguments twice: the second call collides and gets a suffix
C4_Witness ==
    /\ Len(call) = 2 /\ call[1] = call[2]
    /\ Cardinality(registries.grid) = 2
    /\ ret[1] = ret[2]

\* C6: for each role, when some header equals a candidate key the chosen
\* header equals one, and when some header starts with a candidate key the
\* chosen header starts with one.
C6_ExactThenPrefix ==
    LET keys(role) == CASE role = "date" -> LIKELY_DATE_KEYS
                        [] role = "time" -> LIKELY_TIME_KEYS
                        [] role = "type" -> LIKELY_TYPE_KEYS
                        [] role = "name" -> LIKELY_NAME_KEYS
        IsExact(h, role) == \E c \in Range(keys(role)) : strip(lower(h)) = c
        IsPrefix(h, role) == \E c \in Range(keys(role)) : startswith(strip(lower(h)), c)
    IN  pc = "detected" =>
            \A role \in {"date", "time", "type", "name"} :
                /\ (\E i \in 1..Len(fieldnames) : IsExact(fieldnames[i], role))
                   => IsExact(cols[role], role)
                /\ (\E i \in 1..Len(fieldnames) : IsPrefix(fieldnames[i], role))
                   => IsPrefix(cols[role], role)

\* C10: a range with AM/PM on its right side only starts at the left clock
\* time read with the right side's AM/PM, whichever dash separates the sides;
\* "1:00-2:30 PM" is 13:00 to 14:30.
C10_RightMeridiemInherited ==
    pc = "timed" =>
        /\ call \in {<<"1",":","0","0","-","2",":","3","0"," ","P","M">>, <<"1",":","0","0","EN","2",":","3","0"," ","P","M">>, <<"1",":","0","0","EM","2",":","3","0"," ","P","M">>}
           => ret = <<13 * 60, 14 * 60 + 30>>
        /\ \A l \in ClockTexts : \A r \in ClockTexts : \A d \in DashTexts : \A m \in MeridiemTexts :
              call = l \o d \o r \o m
              => ret = <<parse_time_piece(l \o m), parse_time_piece(r \o m)>>

\* ------------------------------------------------------------------------
\* Properties of the run on one CSV file, continued
\* ------------------------------------------------------------------------

\* row n has a date cell that does not parse, or a blank one below such a row
RECURSIVE Unscheduled(_)
Unscheduled(n) ==
    LET cell == strip(row_get(csv_rows[n], cols.date))
    IN  IF cell # <<>> THEN parse_date(cell) = NoDate
        ELSE n > 1 /\ Unscheduled(n - 1)

\* C11: a row whose date cell is filled in but does not parse, and the rows
\* with a blank date cell that follow it, have no entry in any day column.
C11_UndatedRowsNotPlaced ==
    (pc = "done" /\ status = "exit 0") =>
        \A n \in 1..Len(csv_rows) : Unscheduled(n) => PlacesOf(n) = {}

\* ------------------------------------------------------------------------
\* The time tokens of the two scripts on their own
\* ------------------------------------------------------------------------

\* clock times of the 12-hour form, with AM/PM, and of the 24-hour form
Sides12h ==
    {h \o m \o x : h \in {<<"1">>, <<"0","9">>, <<"1","2">>}, m \in {<<>>, <<":","0","0">>, <<":","5","9">>},
                   x \in {<<" ","A","M">>, <<"p","m">>, <<" ","p",".","m",".">>}}

Sides24h == {h \o m : h \in {<<"0">>, <<"9">>, <<"1","3">>, <<"2","3">>}, m \in {<<>>, <<":","0","0">>, <<":","5","9">>}}

\* ranges of two valid clock times, both sides of the same form; AM/PM is
\* written after a space, right after the digits, or with dots
ValidRangeTexts ==
    {l \o d \o r : l \in Sides12h, d \in {<<"-">>, <<" ","EN"," ">>}, r \in Sides12h}
    \cup {l \o d \o r : l \in Sides24h, d \in {<<"-">>, <<" ","EN"," ">>}, r \in Sides24h}

InitToken ==
    /\ pc = "token" /\ status = "running"
    /\ fieldnames = <<>> /\ csv_rows = <<>>
    /\ Idle
    /\ call \in ValidRangeTexts /\ ret = <<>> /\ registries = <<>>

\* ttok = time_range_token_from_display(time_text) in the summary script,
\* ttok = time_range_token(time_text) in the detailed one
TimeTokens ==
    /\ pc = "token"
    /\ ret' = <<time_range_token_from_display(call), time_range_token(call)>>
    /\ pc' = "tokened"
    /\ UNCHANGED <<status, fieldnames, csv_rows, cols, line, current_date_d, rows, day_buckets,
                   day_id_registries, cells, stderr, stdout, slots, call, registries>>

NextToken ==
    \/ TimeTokens

SpecToken == InitToken /\ [][NextToken]_vars

\* HHMM-HHMM with HH at most 23 and MM at most 59
IsRangeToken(t) ==
    /\ Len(t) = 9
    /\ t[5] = "-"
    /\ \A i \in {1, 2, 3, 4, 6, 7, 8, 9} : IsDigit(t[i])
    /\ int(Slice(t, 1, 2)) <= 23 /\ int(Slice(t, 3, 4)) <= 59
    /\ int(Slice(t, 6, 7)) <= 23 /\ int(Slice(t, 8, 9)) <= 59

\* C12: the token either script computes from a range of two valid clock
\* times is 9 characters HHMM-HHMM, each half between 0000 and 2359 with
\* minutes at most 59.
C12_TokenShape ==
    pc = "tokened" => IsRangeToken(ret[1]) /\ IsRangeToken(ret[2])

\* the session a grid entry comes from
SessionOf(p) == rows[CHOOSE i \in 1..Len(rows) : rows[i].row = Entry(p).row]

\* HHMM of a time of day
HHMM(t) == dd(t \div 60) \o dd(t % 60)

\* the ID built from the given time token for session s: the non-empty ones
\* of weekday, slug of the type, slug of a paper session's name and token,
\* joined by hyphens
IdWithToken(s, token) ==
    LET parts == SelectSeq(<<IF s.date_d = NoDate THEN <<>> ELSE WeekdayNames[weekday(s.date_d) + 1],
                             slugify_ascii(IF s.code # <<>> THEN s.code ELSE s.title),
                             IF s.code # <<>> THEN slugify_ascii(s.name) ELSE <<>>,
                             token>>,
                           LAMBDA part : part # <<>>)
    IN  IF parts = <<>> THEN <<"t","i","m","e","s","l","o","t">> ELSE join_hyphen(parts)

\* href links to the ID or to the ID with a suffix -xN
LinksTo(href, id) ==
    \/ href = <<"#">> \o id
    \/ \E i \in 2..(2 * Len(rows) + 1) : href = <<"#">> \o id \o <<"-", "x">> \o decimal(i)

WellHyphenated(href) ==
    /\ href[Len(href)] # "-"
    /\ Len(href) > 1 => href[2] # "-"
    /\ \A i \in 1..(Len(href) - 1) : ~(href[i] = "-" /\ href[i + 1] = "-")

BaseOf(a) ==
    LET parts == SelectSeq(<<a.day, slugify_ascii(a.type), slugify_ascii(a.name),
                             time_range_token_from_display(a.time)>>,
                           LAMBDA part : part # <<>>)
    IN  IF parts # <<>> THEN join_hyphen(parts)
        ELSE IF a.day # <<>> THEN a.day ELSE <<"t","i","m","e","s","l","o","t">>

\* the ID the k-th generation for one tuple gets
Issued(base, k) == IF k = 1 THEN base ELSE base \o <<"-", "x">> \o decimal(k)

\* C14: on a registry that starts empty, the first generation for a tuple
\* returns the base ID, the k-th generation for the same tuple returns
\* base-xk, and the registry then holds exactly the IDs issued so far; both
\* pages' generators do so.
C14_SuffixSequence ==
    (call # <<>> /\ \A i \in DOMAIN call : call[i] = call[1]) =>
        /\ ret = <<Issued(BaseOf(call[1]), Len(call)), Issued(BaseOf(call[1]), Len(call))>>
        /\ registries.grid = {Issued(BaseOf(call[1]), k) : k \in 1..Len(call)}
        /\ registries.full = {Issued(BaseOf(call[1]), k) : k \in 1..Len(call)}

\* three generations for one tuple with a time range: the third is base-x3
C14_Witness ==
    /\ Len(call) = 3 /\ call[1] = call[2] /\ call[2] = call[3]
    /\ call[1].time # <<>> /\ call[1].type # <<>>
    /\ Cardinality(registries.grid) = 3
    /\ Slice(ret[1], Len(ret[1]) - 2, Len(ret[1])) = <<"-","x","3">>

\* the dates of the sessions in the grid; NoDate for a session without one
PlacedDates == {SessionOf(p).date_d : p \in Entries}

\* the place of date d among the dates in the grid, a missing date first
DateRank(d) ==
    1 + Cardinality({e \in PlacedDates : e # d /\ (e = NoDate \/ (d # NoDate /\ SeqLess(e, d)))})

\* C15: the day columns run from left to right in ascending order of the
\* date of their sessions, whatever the order of the days in the CSV: the
\* column of a session is the rank of its date among the dates in the grid
\* (sessions without a date form the first column).
C15_ColumnsByDate ==
    (pc = "done" /\ status = "exit 0") =>
        /\ \A p \in Entries : cells[p[1]].gc = DateRank(SessionOf(p).date_d)
        /\ \A p \in Entries : \A q \in Entries :
              (SessionOf(p).date_d # NoDate /\ SessionOf(q).date_d # NoDate) =>
                  (SeqLess(SessionOf(p).date_d, SessionOf(q).date_d) <=> cells[p[1]].gc < cells[q[1]].gc)

\* a grid of two days whose later day comes first in the CSV
C15_Witness ==
    /\ pc = "done" /\ status = "exit 0"
    /\ \E p \in Entries : \E q \in Entries :
          /\ Entry(p).row < Entry(q).row
          /\ SessionOf(p).date_d # NoDate /\ SessionOf(q).date_d # NoDate
          /\ SeqLess(SessionOf(q).date_d, SessionOf(p).date_d)
          /\ cells[q[1]].gc = 1 /\ cells[p[1]].gc = 2

\* the largest number of distinct (start, end) windows a day has in segment
SegmentMax(segment) ==
    Max({Cardinality({Window(x) : x \in Range(day_buckets[k][segment])}) : k \in 1..Len(day_buckets)})

GridHeight == 1 + SegmentMax("morning") + 1 + SegmentMax("afternoon") + SegmentMax("evening")

\* the rows of the grid that belong to a segment
SegmentRows(segment) ==
    CASE segment = "morning" -> 2..(1 + SegmentMax("morning"))
      [] segment = "lunch" -> {2 + SegmentMax("morning")}
      [] segment = "afternoon" -> (3 + SegmentMax("morning"))..(2 + SegmentMax("morning") + SegmentMax("afternoon"))
      [] segment = "evening" -> (3 + SegmentMax("morning") + SegmentMax("afternoon"))..GridHeight

\* C16: every day column has one header, morning_max morning rows, one
\* lunch row, afternoon_max afternoon rows and evening_max evening rows, each
\* max the largest number of parallel groups of the segment over the days;
\* every position (column, row) is emitted exactly once, a session's cell is
\* in the rows of its segment, and a position without a session is an
\* empty-cell placeholder with an aria-label.
C16_GridShape ==
    (pc = "done" /\ status = "exit 0") =>
        /\ Len(cells) = Len(day_buckets) * GridHeight
        /\ \A c \in 1..Len(day_buckets) : \A r \in 1..GridHeight :
              Cardinality({i \in 1..Len(cells) : cells[i].gc = c /\ cells[i].gr = r}) = 1
        /\ \A i \in 1..Len(cells) :
              /\ cells[i].gr = 1 <=> cells[i].class = "schedule-grid-th"
              /\ cells[i].gr # 1 => cells[i].class = "schedule-grid-td"
              /\ (cells[i].gr # 1 /\ cells[i].items = <<>>) =>
                    cells[i].css = "empty-cell" /\ cells[i].aria_label # <<>>
              /\ cells[i].items # <<>> => cells[i].css # "empty-cell"
        /\ \A p \in Entries : \A k \in 1..Len(day_buckets) :
              \A segment \in {"morning", "lunch", "afternoon", "evening"} :
                  (\E x \in Range(day_buckets[k][segment]) : x.row = Entry(p).row)
                      => cells[p[1]].gr \in SegmentRows(segment)

\* two day columns, one with a session in a row where the other has a
\* placeholder
C16_Witness ==
    /\ pc = "done" /\ status = "exit 0"
    /\ \E i \in 1..Len(cells) : \E j \in 1..Len(cells) :
          /\ cells[i].gr = cells[j].gr /\ cells[i].gc # cells[j].gc
          /\ cells[i].items = <<>> /\ cells[i].aria_label = <<"E","m","p","t","y">>
          /\ cells[j].items # <<>>

\* ------------------------------------------------------------------------
\* partition_by_day on lists of sessions in any order
\* ------------------------------------------------------------------------

\* Session(date_d, day_label, start, end, title, code, name)
Session(date_d, start, end, title, code, name) ==
    [date_d |-> date_d, day_label |-> human_day_label_from_date(date_d), start |-> start,
     end |-> end, title |-> title, code |-> code, name |-> name]

\* sessions of one day around the bounds 12:30 and 17:30 of the segments,
\* with equal times in the evening and at lunch, one without a start, and a
\* session of the next day
SessionPool ==
    {Session(<<2025, 10, 27>>, 18 * 60, 19 * 60, <<"R","e","c","e","p","t","i","o","n">>, <<>>, <<>>),
     Session(<<2025, 10, 27>>, 18 * 60, 19 * 60, <<"B","a","n","q","u","e","t">>, <<>>, <<>>),
     Session(<<2025, 10, 27>>, 12 * 60, 13 * 60, <<"L","u","n","c","h">>, <<>>, <<>>),
     Session(<<2025, 10, 27>>, 12 * 60, 13 * 60, <<"A","w","a","r","d"," ","L","u","n","c","h">>, <<>>, <<>>),
     Session(<<2025, 10, 27>>, 18 * 60, 19 * 60, <<"L","a","t","e"," ","L","u","n","c","h">>, <<>>, <<>>),
     Session(<<2025, 10, 27>>, 12 * 60 + 30, 13 * 60 + 30, <<"P","a","n","e","l">>, <<>>, <<>>),
     Session(<<2025, 10, 27>>, 17 * 60 + 30, 18 * 60 + 30, <<"S","o","c","i","a","l">>, <<>>, <<>>),
     Session(<<2025, 10, 27>>, 9 * 60, 10 * 60 + 45, <<>>, <<"P","a","p","e","r"," ","S","e","s","s","i","o","n"," ","1","A">>, <<"A","c","c","e","s","s">>),
     Session(<<2025, 10, 27>>, NoTime, 10 * 60, <<"S","e","t","u","p">>, <<>>, <<>>),
     Session(<<2025, 10, 28>>, 9 * 60, 10 * 60, <<"K","e","y","n","o","t","e">>, <<>>, <<>>)}

MaxSessions == 2

InitPartition ==
    /\ pc = "partition" /\ status = "running"
    /\ fieldnames = <<>> /\ csv_rows = <<>>
    /\ cols = NoCols /\ line = 0 /\ current_date_d = NoDate
    /\ \E picked \in SeqsUpTo(SessionPool, MaxSessions) :
           rows = [i \in 1..Len(picked) |-> picked[i] @@ [row |-> i]]
    /\ day_buckets = <<>> /\ day_id_registries = <<>> /\ cells = <<>>
    /\ stderr = <<>> /\ stdout = "" /\ slots = <<>>
    /\ call = <<>> /\ ret = <<>> /\ registries = <<>>

Partition ==
    /\ pc = "partition"
    /\ day_buckets' = partition_by_day(rows)
    /\ pc' = "partitioned"
    /\ UNCHANGED <<status, fieldnames, csv_rows, cols, line, current_date_d, rows,
                   day_id_registries, cells, stderr, stdout, slots, call, ret, registries>>

NextPartition ==
    \/ Partition

SpecPartition == InitPartition /\ [][NextPartition]_vars

Segments == {"morning", "lunch", "afternoon", "evening"}

\* C17: each of the four buckets of a day is in ascending order of
\* (start, end, code, name, title), an absent time counting as 00:00,
\* whatever the order of the sessions in the list.
C17_BucketsSortedByFullKey ==
    pc = "partitioned" =>
        \A k \in 1..Len(day_buckets) : \A segment \in Segments :
            \A i \in 1..Len(day_buckets[k][segment]) : \A j \in 1..Len(day_buckets[k][segment]) :
                i < j => ~KeyLess(full_key(day_buckets[k][segment][j]),
                                  full_key(day_buckets[k][segment][i]))

\* the bucket the rule gives: lunch for the lunch category, else by the
\* start, an absent start counting as 00:00
RuleBucket(s) ==
    LET start == IF s.start = NoTime THEN 0 ELSE s.start
    IN  IF css_class(s) = "lunch-session" THEN "lunch"
        ELSE IF start < 12 * 60 + 30 THEN "morning"
        ELSE IF start >= 17 * 60 + 30 THEN "evening"
        ELSE "afternoon"

\* where session x is: the <<day, segment, position>> that hold it
PlacesInBuckets(x) ==
    {<<k, segment, i>> \in (1..Len(day_buckets)) \X Segments \X (1..Len(rows)) :
        i <= Len(day_buckets[k][segment]) /\ day_buckets[k][segment][i] = x}

\* C18: partition_by_day puts each session once, in the bucket of its day
\* that the rule gives: lunch when its category is lunch-session, otherwise
\* morning when its start is before 12:30, evening when it is 17:30 or
\* later, and afternoon otherwise.
C18_BucketRule ==
    pc = "partitioned" =>
        \A n \in 1..Len(rows) :
            /\ Cardinality(PlacesInBuckets(rows[n])) = 1
            /\ \A place \in PlacesInBuckets(rows[n]) :
                  /\ place[2] = RuleBucket(rows[n])
                  /\ day_buckets[place[1]].header = rows[n].day_label

\* a day with a session that starts at 12:30 and a lunch that starts before
C18_Witness ==
    /\ pc = "partitioned"
    /\ \E k \in 1..Len(day_buckets) :
          /\ \E x \in Range(day_buckets[k].afternoon) : x.start = 12 * 60 + 30
          /\ \E x \in Range(day_buckets[k].lunch) : x.start < 12 * 60 + 30

\* the pages poster_session_<x>.html of the places where title reads
\* "poster", "session" and an identifier x of letters and digits, in any case
\* and with any blanks between them
PosterPages(title) ==
    LET t == lower(title)
        n == Len(t)
        Blank(i, j) == \A k \in i..j : t[k] = " "
        Ident(i, j) == i <= j /\ (\A k \in i..j : IsAlnum(t[k])) /\ (j = n \/ ~IsAlnum(t[j + 1]))
    IN  {<<"p","o","s","t","e","r","_","s","e","s","s","i","o","n","_">> \o Slice(t, c, d) \o <<".","h","t","m","l">> :
            <<c, d>> \in {<<c, d>> \in (1..n) \X (1..n) :
                            /\ Ident(c, d)
                            /\ \E a \in 1..n : \E b \in 1..n :
                                  /\ Slice(t, a, a + 5) = <<"p","o","s","t","e","r">>
                                  /\ Blank(a + 6, b - 1) /\ a + 6 <= b
                                  /\ Slice(t, b, b + 6) = <<"s","e","s","s","i","o","n">>
                                  /\ Blank(b + 7, c - 1) /\ b + 7 <= c}}

\* C19: a session entry whose title reads "Poster Session X", in any case,
\* links to the page poster_session_<x>.html with x in lower case and not to
\* an in-page anchor; every other entry links to an in-page anchor "#...".
C19_PosterLinks ==
    (pc = "done" /\ status = "exit 0") =>
        \A p \in Entries :
            /\ IF PosterPages(SessionOf(p).title) # {}
               THEN Entry(p).href \in PosterPages(SessionOf(p).title) /\ ~InPage(Entry(p).href)
               ELSE InPage(Entry(p).href)
            /\ SessionOf(p).title = <<"P","o","s","t","e","r"," ","S","e","s","s","i","o","n"," ","A">> => Entry(p).href = <<"p","o","s","t","e","r","_","s","e","s","s","i","o","n","_","a",".","h","t","m","l">>

\* a grid with a poster session and another session
C19_Witness ==
    /\ pc = "done" /\ status = "exit 0"
    /\ \E p \in Entries : \E q \in Entries :
          /\ Entry(p).href = <<"p","o","s","t","e","r","_","s","e","s","s","i","o","n","_","a",".","h","t","m","l">>
          /\ PosterPages(SessionOf(q).title) = {} /\ InPage(Entry(q).href)

\* ------------------------------------------------------------------------
\* The two scripts' slug functions on short texts
\* ------------------------------------------------------------------------

\* letters of both cases, a digit, a hyphen, a blank, a sign, an accented
\* letter and a dash that is not ASCII
SlugAlphabet == {"a", "B", "1", "-", " ", "&", "E_ACUTE", "EN"}

MaxLen == 3

InitSlug ==
    /\ pc = "slug" /\ status = "running"
    /\ fieldnames = <<>> /\ csv_rows = <<>>
    /\ Idle
    /\ call \in SeqsUpTo(SlugAlphabet, MaxLen) /\ ret = <<>> /\ registries = <<>>

\* the summary's slug of the text, the detailed page's slug of it, and the
\* summary's slug of its own result
Slugify ==
    /\ pc = "slug"
    /\ \E a \in {slugify_ascii(call)} :
           ret' = <<a, slugify(call), slugify_ascii(a)>>
    /\ pc' = "slugged"
    /\ UNCHANGED <<status, fieldnames, csv_rows, cols, line, current_date_d, rows, day_buckets,
                   day_id_registries, cells, stderr, stdout, slots, call, registries>>

NextSlug ==
    \/ Slugify

SpecSlug == InitSlug /\ [][NextSlug]_vars

\* lowercase ASCII letters, digits and single hyphens, none at either end
IsSlug(t) ==
    /\ \A i \in 1..Len(t) : IsLowerAlnum(t[i]) \/ t[i] = "-"
    /\ t # <<>> => t[1] # "-" /\ t[Len(t)] # "-"
    /\ \A i \in 1..(Len(t) - 1) : ~(t[i] = "-" /\ t[i + 1] = "-")

\* C20: slugify_ascii returns lowercase ASCII letters, digits and single
\* hyphens with no hyphen at either end, its result is its own slug, and the
\* detailed page's slugify returns the same text.
C20_SlugShape ==
    pc = "slugged" =>
        /\ IsSlug(ret[1])
        /\ ret[3] = ret[1]
        /\ ret[2] = ret[1]

\* a capital letter, a character that is not kept and one that is: the slug
\* has the small letter and a hyphen inside
C20_Witness ==
    /\ pc = "slugged"
    /\ Len(call) = 3 /\ call[1] = "B" /\ call[2] \in {" ", "&"}
    /\ Len(ret[1]) = 3 /\ ret[1][1] = "b" /\ ret[1][2] = "-"

\* ------------------------------------------------------------------------
\* group_parallel on lists of sessions in any order
\* ------------------------------------------------------------------------

InitGroup ==
    /\ pc = "group" /\ status = "running"
    /\ fieldnames = <<>> /\ csv_rows = <<>>
    /\ cols = NoCols /\ line = 0 /\ current_date_d = NoDate
    /\ \E picked \in SeqsUpTo(SessionPool, MaxSessions) :
           rows = [i \in 1..Len(picked) |-> picked[i] @@ [row |-> i]]
    /\ day_buckets = <<>> /\ day_id_registries = <<>> /\ cells = <<>>
    /\ stderr = <<>> /\ stdout = "" /\ slots = <<>>
    /\ call = <<>> /\ ret = <<>> /\ registries = <<>>

GroupParallel ==
    /\ pc = "group"
    /\ ret' = group_parallel(rows)
    /\ pc' = "grouped"
    /\ UNCHANGED <<status, fieldnames, csv_rows, cols, line, current_date_d, rows, day_buckets,
                   day_id_registries, cells, stderr, stdout, slots, call, registries>>

NextGroup ==
    \/ GroupParallel

SpecGroup == InitGroup /\ [][NextGroup]_vars

\* start before start, or equal starts and end before end
WindowBefore(a, b) == a[1] < b[1] \/ (a[1] = b[1] /\ a[2] < b[2])

\* C21: the groups come in ascending order of (start, end), an absent time
\* as 00:00, the sessions of a group share the window and are in ascending
\* order of (code, name, title), and every input session is in the groups
\* exactly once.
C21_GroupsInOrder ==
    pc = "grouped" =>
        /\ \A g \in 1..Len(ret) : \A h \in 1..Len(ret) :
              g < h => WindowBefore(Window(ret[g][1]), Window(ret[h][1]))
        /\ \A g \in 1..Len(ret) :
              /\ ret[g] # <<>>
              /\ \A i \in 1..Len(ret[g]) : Window(ret[g][i]) = Window(ret[g][1])
              /\ \A i \in 1..Len(ret[g]) : \A j \in 1..Len(ret[g]) :
                    i < j => ~KeyLess(<<ords(ret[g][j].code), ords(ret[g][j].name), ords(ret[g][j].title)>>,
                                      <<ords(ret[g][i].code), ords(ret[g][i].name), ords(ret[g][i].title)>>)
        /\ \A n \in 1..Len(rows) :
              Cardinality({<<g, i>> \in (1..Len(ret)) \X (1..Len(rows)) :
                              i <= Len(ret[g]) /\ ret[g][i] = rows[n]}) = 1

\* a later session ahead of an earlier one in the list whose hour has one
\* digit: the groups come back in the order of the times
C21_Witness ==
    /\ pc = "grouped" /\ Len(rows) = 2 /\ Len(ret) = 2
    /\ rows[1].start >= 10 * 60 /\ rows[2].start # NoTime /\ rows[2].start < 10 * 60
    /\ ret[1] = <<rows[2]>> /\ ret[2] = <<rows[1]>>

\* C22: every kept session is rendered in exactly one cell of the grid, once.
C22_KeptSessionsRenderedOnce ==
    (pc = "done" /\ status = "exit 0") =>
        \A i \in 1..Len(rows) : Cardinality(PlacesOf(rows[i].row)) = 1

\* the segments of the day k whose bucket holds session x
SegmentsHolding(k, x) == {segment \in Segments : x \in Range(day_buckets[k][segment])}

\* C23: the four buckets of a day partition its sessions: every session of
\* the day is in exactly one of them, once, and the buckets hold nothing
\* else.
C23_BucketsPartitionDay ==
    pc = "partitioned" =>
        /\ \A k \in 1..Len(day_buckets) :
              /\ \A n \in 1..Len(rows) :
                    Cardinality(SegmentsHolding(k, rows[n]))
                        = IF rows[n].day_label = day_buckets[k].header THEN 1 ELSE 0
              /\ Len(day_buckets[k].morning) + Len(day_buckets[k].lunch)
                    + Len(day_buckets[k].afternoon) + Len(day_buckets[k].evening)
                 = Cardinality({n \in 1..Len(rows) : rows[n].day_label = day_buckets[k].header})
        /\ \A n \in 1..Len(rows) : \E k \in 1..Len(day_buckets) : day_buckets[k].header = rows[n].day_label

\* a day with a lunch session that starts in the evening and a session
\* without a start
C23_Witness ==
    /\ pc = "partitioned"
    /\ \E k \in 1..Len(day_buckets) :
          /\ \E x \in Range(day_buckets[k].lunch) : x.start >= 17 * 60 + 30
          /\ \E x \in Range(day_buckets[k].morning) : x.start = NoTime

\* ------------------------------------------------------------------------
\* The grid of lists of sessions in any order
\* ------------------------------------------------------------------------

\* sessions of one day: paper sessions with and without a name and other
\* sessions at one time, two lunches at one time, a break, a poster session,
\* and a session of the next day
RenderPool ==
    {Session(<<2025, 10, 27>>, 9 * 60, 10 * 60 + 45, <<>>, <<"P","a","p","e","r"," ","S","e","s","s","i","o","n"," ","1","A">>, <<"A","c","c","e","s","s">>),
     Session(<<2025, 10, 27>>, 9 * 60, 10 * 60 + 45, <<>>, <<"P","a","p","e","r"," ","S","e","s","s","i","o","n"," ","1","B">>, <<>>),
     Session(<<2025, 10, 27>>, 9 * 60, 10 * 60 + 45, <<"P","a","n","e","l">>, <<>>, <<>>),
     Session(<<2025, 10, 27>>, 10 * 60 + 45, 11 * 60 + 15, <<"C","o","f","f","e","e"," ","B","r","e","a","k">>, <<>>, <<>>),
     Session(<<2025, 10, 27>>, 12 * 60, 13 * 60, <<"L","u","n","c","h">>, <<>>, <<>>),
     Session(<<2025, 10, 27>>, 12 * 60, 13 * 60, <<"A","w","a","r","d"," ","L","u","n","c","h">>, <<>>, <<>>),
     Session(<<2025, 10, 27>>, 15 * 60, 16 * 60, <<"P","o","s","t","e","r"," ","S","e","s","s","i","o","n"," ","A">>, <<>>, <<>>),
     Session(<<2025, 10, 28>>, 9 * 60, 10 * 60, <<"K","e","y","n","o","t","e">>, <<>>, <<>>)}

RECURSIVE Reverse(_)
Reverse(seq) == IF seq = <<>> THEN <<>> ELSE Append(Reverse(Tail(seq)), seq[1])

InitRender ==
    /\ pc = "render" /\ status = "running"
    /\ fieldnames = <<>> /\ csv_rows = <<>>
    /\ cols = NoCols /\ line = 0 /\ current_date_d = NoDate
    /\ \E picked \in SeqsUpTo(RenderPool, MaxSessions) :
           /\ picked # <<>>
           /\ rows = [i \in 1..Len(picked) |-> picked[i] @@ [row |-> i]]
    /\ day_buckets = <<>> /\ day_id_registries = <<>> /\ cells = <<>>
    /\ stderr = <<>> /\ stdout = "" /\ slots = <<>>
    /\ call = <<>> /\ ret = <<>> /\ registries = <<>>

\* render_table(partition_by_day(sessions)) of the list, and of the same
\* sessions in the opposite order
Render ==
    /\ pc = "render"
    /\ \E b \in {partition_by_day(rows)} :
           \E t \in {render_table(b)}, u \in {render_table(partition_by_day(Reverse(rows)))} :
               /\ day_buckets' = b
               /\ cells' = t.cells
               /\ day_id_registries' = t.registries
               /\ ret' = u.cells
    /\ pc' = "rendered"
    /\ UNCHANGED <<status, fieldnames, csv_rows, cols, line, current_date_d, rows,
                   stderr, stdout, slots, call, registries>>

NextRender ==
    \/ Render

SpecRender == InitRender /\ [][NextRender]_vars

\* C24: each session entry of a cell shows its session's own text, code and
\* name for a paper session and the title for any other, and no entry's
\* label is empty.
C24_EntriesShowOwnText ==
    pc = "rendered" =>
        \A p \in Entries :
            /\ IF SessionOf(p).code # <<>>
               THEN /\ Entry(p).session_code = escape_html(SessionOf(p).code)
                    /\ Entry(p).session_name = escape_html(SessionOf(p).name)
               ELSE Entry(p).session_type = escape_html(SessionOf(p).title)
            /\ Entry(p).session_code # <<>> \/ Entry(p).session_type # <<>>

\* ------------------------------------------------------------------------
\* load_sessions on rows with and without a date cell
\* ------------------------------------------------------------------------

\* rows with a date that are kept, untimed or blank, rows without a date,
\* and a row whose date does not parse
DatedRowPool ==
    {<<<<"1","0","/","2","7","/","2","0","2","5">>, <<"9",":","0","0"," ","A","M","-","1","0",":","4","5"," ","A","M">>, <<"P","a","p","e","r"," ","S","e","s","s","i","o","n"," ","1","A">>, <<"A","c","c","e","s","s">>>>,
     <<<<"1","0","/","2","8","/","2","0","2","5">>, <<"T","B","D">>, <<"P","o","s","t","e","r","s">>, <<>>>>,
     <<<<"2","0","2","5","-","1","0","-","2","9">>, <<>>, <<>>, <<>>>>,
     <<<<"O","c","t"," ","3","0">>, <<"2",":","0","0"," ","P","M","-","3",":","0","0"," ","P","M">>, <<"T","a","l","k">>, <<>>>>,
     <<<<>>, <<"1",":","0","0"," ","P","M","-","2",":","0","0"," ","P","M">>, <<"P","a","n","e","l">>, <<>>>>,
     <<<<" ">>, <<"3",":","0","0"," ","P","M","-","4",":","0","0"," ","P","M">>, <<"K","e","y","n","o","t","e">>, <<>>>>,
     <<<<>>, <<>>, <<>>, <<>>>>}

InitLoad ==
    /\ pc = "open" /\ status = "running"
    /\ fieldnames = CanonicalHeader
    /\ csv_rows \in SeqsUpTo(DatedRowPool, MaxRows)
    /\ Idle
    /\ call = <<>> /\ ret = <<>> /\ registries = <<>>

NextLoad ==
    \/ OpenCsv
    \/ LoadRow

SpecLoad == InitLoad /\ [][NextLoad]_vars

\* the date the text of a date cell stands for
DateOfCell(text) ==
    CASE text = <<"1","0","/","2","7","/","2","0","2","5">> -> <<2025, 10, 27>>
      [] text = <<"1","0","/","2","8","/","2","0","2","5">> -> <<2025, 10, 28>>
      [] text = <<"2","0","2","5","-","1","0","-","2","9">> -> <<2025, 10, 29>>
      [] OTHER -> NoDate

\* the date of the nearest row at or above row n whose date cell, the first
\* of the row, is not blank; NoDate when there is none
RECURSIVE CarriedDate(_)
CarriedDate(n) ==
    IF n < 1 THEN NoDate
    ELSE IF strip(csv_rows[n][1]) # <<>> THEN DateOfCell(strip(csv_rows[n][1]))
    ELSE CarriedDate(n - 1)

\* C25: while the rows are loaded, a session of a row with a blank date
\* cell has the date of the nearest row above whose date cell is not blank,
\* whether that row was kept or skipped, and no date when there is none.
C25_DateCarriedForward ==
    pc = "load" =>
        /\ current_date_d = CarriedDate(line)
        /\ \A i \in 1..Len(rows) :
              /\ rows[i].date_d = CarriedDate(rows[i].row)
              /\ rows[i].day_label = human_day_label_from_date(CarriedDate(rows[i].row))

\* a kept session without a date cell below a dated row that was skipped
C25_Witness ==
    /\ pc = "load" /\ line = 2 /\ Len(rows) = 1
    /\ rows[1].row = 2 /\ strip(csv_rows[2][1]) = <<>>
    /\ strip(csv_rows[1][1]) # <<>>
    /\ rows[1].date_d # NoDate

\* the cells as the page shows them: without the CSV row of an entry
Html(cs) ==
    [i \in 1..Len(cs) |->
        [cs[i] EXCEPT !.items = [j \in 1..Len(cs[i].items) |->
            [href |-> cs[i].items[j].href, time_h3 |-> cs[i].items[j].time_h3,
             session_code |-> cs[i].items[j].session_code,
             session_name |-> cs[i].items[j].session_name,
             session_type |-> cs[i].items[j].session_type]]]]

\* C26: when every session carries its own date the grid does not depend
\* on the order of the sessions: the list in the opposite order gives the
\* same cells, with the same lunch session and the same links.
C26_GridIndependentOfOrder ==
    pc = "rendered" => Html(cells) = Html(ret)

\* ------------------------------------------------------------------------
\* From a session's times to the time token of its anchor
\* ------------------------------------------------------------------------

\* times of day in minutes: around midnight, noon and the ends of the hours
TimesOfDay ==
    {0, 5, 59, 9 * 60, 11 * 60 + 59, 12 * 60, 12 * 60 + 30, 13 * 60 + 5, 17 * 60 + 30, 23 * 60 + 59}

InitRoundTrip ==
    /\ pc = "format" /\ status = "running"
    /\ fieldnames = <<>> /\ csv_rows = <<>>
    /\ Idle
    /\ call \in TimesOfDay \X TimesOfDay /\ ret = <<>> /\ registries = <<>>

\* session_anchor_href's time_text and the token make_fullschedule_anchor
\* takes from it
RoundTrip ==
    /\ pc = "format"
    /\ \E time_text \in {format_time_range(call[1], call[2])} :
           ret' = <<time_text, time_range_token_from_display(time_text)>>
    /\ pc' = "formatted"
    /\ UNCHANGED <<status, fieldnames, csv_rows, cols, line, current_date_d, rows, day_buckets,
                   day_id_registries, cells, stderr, stdout, slots, call, registries>>

NextRoundTrip ==
    \/ RoundTrip

SpecRoundTrip == InitRoundTrip /\ [][NextRoundTrip]_vars

\* C27: for a start and an end, the token of the display text is the
\* 24-hour HHMM of the start, a hyphen and the 24-hour HHMM of the end.
C27_TokenOfDisplayedTimes ==
    pc = "formatted" => ret[2] = HHMM(call[1]) \o <<"-">> \o HHMM(call[2])

\* a start in the hour after midnight and an end
\* in the hour after noon
C27_Witness ==
    /\ pc = "formatted"
    /\ call[1] < 60 /\ call[2] >= 12 * 60 /\ call[2] < 13 * 60
    /\ ret[2][1] = "0" /\ ret[2][2] = "0" /\ ret[2][6] = "1" /\ ret[2][7] = "2"

\* ------------------------------------------------------------------------
\* autodetect_columns on headers that name more than one role
\* ------------------------------------------------------------------------

SharedHeaderPool ==
    {Date, <<"D","a","t","e","/","T","i","m","e">>, TimeMT, SessionType, SessionName, <<"T","y","p","e"," ","N","a","m","e">>}

InitShared ==
    /\ pc = "detect" /\ status = "running"
    /\ fieldnames \in SeqsUpTo(SharedHeaderPool, MaxHeaders) /\ csv_rows = <<>>
    /\ Idle
    /\ call = <<>> /\ ret = <<>> /\ registries = <<>>

NextShared ==
    \/ Detect

SpecShared == InitShared /\ [][NextShared]_vars

\* C28: when all four roles are found they are four different columns.
C28_FourRolesFourColumns ==
    (pc = "detected" /\ missing_roles(cols) = <<>>) =>
        Cardinality({cols.date, cols.time, cols.type, cols.name}) = 4

\* ------------------------------------------------------------------------
\* accepted_papers_script/converter.py
\* ------------------------------------------------------------------------

\* str(cell) of a cell of the frame pandas reads; <<>> is the NaN of an
\* empty cell
str_cell(v) == IF v = <<>> THEN <<"n","a","n">> ELSE v

IsAsciiLetter(c) == IndexOf(c, UpperLetters) > 0 \/ IndexOf(c, LowerLetters) > 0

\* re.sub(r'^[^A-Za-z]+', '', s)
RECURSIVE re_sub_leading_nonletters(_)
re_sub_leading_nonletters(s) ==
    IF s = <<>> \/ IsAsciiLetter(s[1]) THEN s ELSE re_sub_leading_nonletters(Tail(s))

normalize_title_key(title) ==
    lower(re_sub_leading_nonletters(strip(str_cell(title))))

\* html.escape(s)
RECURSIVE escape(_)
escape(s) ==
    IF s = <<>> THEN <<>>
    ELSE (CASE s[1] = "&" -> <<"&","a","m","p",";">>
            [] s[1] = "<" -> <<"&","l","t",";">>
            [] s[1] = ">" -> <<"&","g","t",";">>
            [] s[1] = "\"" -> <<"&","q","u","o","t",";">>
            [] s[1] = "'" -> <<"&","#","x","2","7",";">>
            [] OTHER -> <<s[1]>>) \o escape(Tail(s))

\* s.split(";")
RECURSIVE split_semicolon(_)
split_semicolon(s) ==
    LET at == {i \in 1..Len(s) : s[i] = ";"}
        first == CHOOSE i \in at : \A j \in at : i <= j
    IN  IF at = {} THEN <<s>>
        ELSE <<Slice(s, 1, first - 1)>> \o split_semicolon(Slice(s, first + 1, Len(s)))

\* the blocks of the rows of df in order: the texts each block shows; row is
\* the CSV row it comes from
df_to_html_blocks(df) ==
    [i \in 1..Len(df) |->
        [title |-> escape(strip(str_cell(df[i].Title))),
         type |-> escape(strip(str_cell(df[i].Type))),
         authors |-> LET parts == split_semicolon(strip(str_cell(df[i].Authors)))
                         kept == SelectSeq(parts, LAMBDA a : strip(a) # <<>>)
                     IN  [j \in 1..Len(kept) |-> escape(strip(kept[j]))],
         row |-> df[i].row]]

\* a variant that sorts by the key alone
sort_df_for_output_by_key_only(df) ==
    sorted(df, [i \in 1..Len(df) |-> <<ords(normalize_title_key(df[i].Title))>>])

\* sort_values(by=["_sortkey", "Title"]): a NaN title after the others
sort_df_for_output(df) ==
    sorted(df, [i \in 1..Len(df) |->
                   <<ords(normalize_title_key(df[i].Title)),
                     <<IF df[i].Title = <<>> THEN 1 ELSE 0>>,
                     ords(df[i].Title)>>])

\* is_exp of a row of the frame
is_exp(typ) == startswith(lower(strip(str_cell(typ))), <<"e","x","p","e","r","i","e","n","c","e"," ","r","e","p","o","r","t">>)

\* rows <<Type, Title, Authors>> of an accepted-papers CSV
PaperPool ==
    {<<<<"E","x","p","e","r","i","e","n","c","e"," ","R","e","p","o","r","t">>, <<"Z","e","b","r","a">>, <<"A"," ","B",";"," ","C"," ","D">>>>,
     <<<<" ","e","x","p","e","r","i","e","n","c","e"," ","r","e","p","o","r","t","s"," ","(","s","h","o","r","t",")"," ">>, <<"a","p","p","l","e">>, <<"A"," ","B">>>>,
     <<<<"E","x","p","e","r","i","e","n","c","e"," ","R","e","p","o","r","t">>, <<"A","p","p","l","e">>, <<"A"," ","B",";",";"," ","C"," ","D"," ",";">>>>,
     <<<<"A","n"," ","E","x","p","e","r","i","e","n","c","e"," ","R","e","p","o","r","t">>, <<" ","a","p","p","l","e">>, <<"A"," ","B">>>>,
     <<<<"T","e","c","h","n","i","c","a","l"," ","P","a","p","e","r">>, <<"\"","A","p","p","l","e","\""," ","&"," ","C","o">>, <<"O","'","N","e","i","l",","," ","J","r",".",";"," ","C"," ","D">>>>,
     <<<<"T","e","c","h","n","i","c","a","l"," ","P","a","p","e","r">>, <<"a","p","p","l","e">>, <<"A"," ","B">>>>,
     <<<<"T","e","c","h","n","i","c","a","l"," ","P","a","p","e","r">>, <<"A","p","p","l","e">>, <<"A"," ","B">>>>,
     <<<<"T","e","c","h","n","i","c","a","l"," ","P","a","p","e","r">>, <<"2"," ","Z","e","b","r","a","s">>, <<>>>>,
     <<<<"T","A","C","C","E","S","S"," ","A","r","t","i","c","l","e">>, <<"E_ACUTE">> \o <<"t","u","d","e">>, <<"A"," ","B">>>>,
     <<<<"T","A","C","C","E","S","S"," ","A","r","t","i","c","l","e">>, <<"S","t","u","d","y">>, <<"A"," ","B">>>>,
     <<<<>>, <<"B","a","n","a","n","a">>, <<"A"," ","B">>>>,
     <<<<"T","e","c","h","n","i","c","a","l"," ","P","a","p","e","r">>, <<>>, <<"A"," ","B">>>>}

MaxPapers == 2

InitConvert ==
    /\ pc = "convert" /\ status = "running"
    /\ fieldnames = <<<<"T","y","p","e">>, <<"T","i","t","l","e">>, <<"A","u","t","h","o","r","s">>>>
    /\ csv_rows \in SeqsUpTo(PaperPool, MaxPapers)
    /\ Idle
    /\ call = <<>> /\ ret = <<>> /\ registries = <<>>

\* main(): the frame is split by is_exp, each part sorted and written
Convert ==
    /\ pc = "convert"
    /\ \E df \in {[n \in 1..Len(csv_rows) |->
                     [Type |-> csv_rows[n][1], Title |-> csv_rows[n][2],
                      Authors |-> csv_rows[n][3], row |-> n]]} :
           ret' = [exp |-> df_to_html_blocks(
                               sort_df_for_output(SelectSeq(df, LAMBDA r : is_exp(r.Type)))),
                   other |-> df_to_html_blocks(
                                 sort_df_for_output(SelectSeq(df, LAMBDA r : ~is_exp(r.Type))))]
    /\ pc' = "converted"
    /\ UNCHANGED <<status, fieldnames, csv_rows, cols, line, current_date_d, rows, day_buckets,
                   day_id_registries, cells, stderr, stdout, slots, call, registries>>

NextConvert ==
    \/ Convert

SpecConvert == InitConvert /\ [][NextConvert]_vars

\* the title of CSV row n as a text, from its first ASCII letter on, in
\* lower case
TitleKey(n) ==
    LET t == strip(IF csv_rows[n][2] = <<>> THEN <<"n","a","n">> ELSE csv_rows[n][2])
        letters == {i \in 1..Len(t) : IsAsciiLetter(t[i])}
    IN  IF letters = {} THEN <<>>
        ELSE lower(Slice(t, CHOOSE i \in letters : \A j \in letters : i <= j, Len(t)))

\* row m goes before row n or ties with it: by the key, then by the raw
\* title, an absent title last
TitleOrder(m, n) ==
    \/ SeqLess(ords(TitleKey(m)), ords(TitleKey(n)))
    \/ /\ TitleKey(m) = TitleKey(n)
       /\ \/ csv_rows[n][2] = <<>>
          \/ csv_rows[m][2] # <<>> /\ ~SeqLess(ords(csv_rows[n][2]), ords(csv_rows[m][2]))

\* C29: every CSV row is written to exactly one of the two outputs, once:
\* to the experience reports exactly when its Type, trimmed and lowercased,
\* starts with "experience report"; inside each output the blocks are in
\* ascending order of the title from its first letter on in lower case, ties
\* broken by the raw title.
C29_RowsSplitAndSorted ==
    pc = "converted" =>
        /\ \A n \in 1..Len(csv_rows) :
              LET in_exp == {i \in 1..Len(ret.exp) : ret.exp[i].row = n}
                  in_other == {i \in 1..Len(ret.other) : ret.other[i].row = n}
              IN  IF startswith(lower(strip(IF csv_rows[n][1] = <<>> THEN <<"n","a","n">> ELSE csv_rows[n][1])),
                                <<"e","x","p","e","r","i","e","n","c","e"," ","r","e","p","o","r","t">>)
                  THEN Cardinality(in_exp) = 1 /\ in_other = {}
                  ELSE Cardinality(in_other) = 1 /\ in_exp = {}
        /\ Len(ret.exp) + Len(ret.other) = Len(csv_rows)
        /\ \A i \in 1..Len(ret.exp) : \A j \in 1..Len(ret.exp) :
              i < j => TitleOrder(ret.exp[i].row, ret.exp[j].row)
        /\ \A i \in 1..Len(ret.other) : \A j \in 1..Len(ret.other) :
              i < j => TitleOrder(ret.other[i].row, ret.other[j].row)

\* two papers of one output whose titles differ in case only, the one with
\* the capital second in the CSV and first in the output
C29_Witness ==
    /\ pc = "converted" /\ Len(csv_rows) = 2
    /\ Len(ret.other) = 2 /\ ret.other[1].row = 2
    /\ TitleKey(1) = TitleKey(2) /\ csv_rows[1][2] # csv_rows[2][2]

\* ------------------------------------------------------------------------
\* pc_members/pc_processing.py
\* ------------------------------------------------------------------------

\* main() on the data rows of a file with the header Name, Affiliation,
\* Country: the lines it prints, in order. csv.DictReader passes a blank
\* line over, gives a row that is short None for the missing cells and a
\* row that is long the key None, and .strip() of None raises before
\* anything is printed.
pc_main(data) ==
    LET read == SelectSeq([n \in 1..Len(data) |-> [cellsOf |-> data[n], row |-> n]],
                          LAMBDA r : r.cellsOf # <<>>)
        members == [i \in 1..Len(read) |->
                       [Name |-> strip(read[i].cellsOf[1]),
                        Affiliation |-> strip(read[i].cellsOf[2]),
                        Country |-> strip(read[i].cellsOf[3]),
                        row |-> read[i].row]]
        named == SelectSeq(members, LAMBDA m : m.Name # <<>>)
        first_letter(m) == upper(<<m.Name[1]>>)
        keys == first_seen([i \in 1..Len(named) |-> first_letter(named[i])])
        letters == sorted(keys, [i \in 1..Len(keys) |-> <<ords(keys[i])>>])
        group(letter) ==
            LET g == SelectSeq(named, LAMBDA m : first_letter(m) = letter)
                s == sorted(g, [i \in 1..Len(g) |-> <<ords(g[i].Name)>>])
            IN  <<[tag |-> "h2", text |-> letter], [tag |-> "ul"]>>
                \o [i \in 1..Len(s) |-> [tag |-> "li", name |-> s[i].Name,
                                         affiliation |-> s[i].Affiliation,
                                         country |-> s[i].Country, row |-> s[i].row]]
                \o <<[tag |-> "/ul"]>>
        RECURSIVE printed(_)
        printed(k) == IF k > Len(letters) THEN <<>> ELSE group(letters[k]) \o printed(k + 1)
    IN  IF \E i \in 1..Len(read) : Len(read[i].cellsOf) # 3
        THEN [raised |-> TRUE, lines |-> <<>>]
        ELSE [raised |-> FALSE, lines |-> printed(1)]

\* rows of a committee CSV: members whose names share a first letter in
\* both cases, a name with blanks around it, a name that starts with a
\* digit, a row without a name, a blank line, a short row and a long row
MemberPool ==
    {<<<<"b","o","b">>, <<"M","I","T">>, <<"U","S","A">>>>,
     <<<<" ","A","l","i","c","e"," ">>, <<"C","M","U">>, <<"U","S","A">>>>,
     <<<<"a","l","i","c","e">>, <<"Z">>, <<"W">>>>,
     <<<<"B","e","a">>, <<"U">>, <<"V">>>>,
     <<<<"1","x">>, <<"a">>, <<"b">>>>,
     <<<<" "," ">>, <<"X">>, <<"Y">>>>,
     <<>>,
     <<<<"C","a","r","l">>, <<"C","M","U">>>>,
     <<<<"D","a","n">>, <<"a">>, <<"b">>, <<"c">>>>}

MaxMembers == 2

InitMembers ==
    /\ pc = "members" /\ status = "running"
    /\ fieldnames = <<<<"N","a","m","e">>, <<"A","f","f","i","l","i","a","t","i","o","n">>, <<"C","o","u","n","t","r","y">>>>
    /\ csv_rows \in SeqsUpTo(MemberPool, MaxMembers)
    /\ Idle
    /\ call = <<>> /\ ret = <<>> /\ registries = <<>>

PrintMembers ==
    /\ pc = "members"
    /\ \E r \in {pc_main(csv_rows)} :
           /\ ret' = r.lines
           /\ status' = IF r.raised THEN "exit 1" ELSE "exit 0"
    /\ pc' = "printed"
    /\ UNCHANGED <<fieldnames, csv_rows, cols, line, current_date_d, rows, day_buckets,
                   day_id_registries, cells, stderr, stdout, slots, call, registries>>

NextMembers ==
    \/ PrintMembers

SpecMembers == InitMembers /\ [][NextMembers]_vars

\* the heading above line i of the output
HeadingAbove(i) ==
    LET above == {h \in 1..i : ret[h].tag = "h2"}
    IN  ret[CHOOSE h \in above : \A g \in above : g <= h].text

\* the lines that print CSV row n
LinesOf(n) == {i \in 1..Len(ret) : ret[i].tag = "li" /\ ret[i].row = n}

\* C30: every CSV row with a non-empty trimmed Name is printed exactly
\* once, under the heading that is its first character in upper case, a row
\* with an empty Name is not printed, the headings ascend and the members of
\* a heading are in ascending order of Name.
C30_MembersPrintedOnce ==
    pc = "printed" =>
        /\ \A n \in 1..Len(csv_rows) :
              IF csv_rows[n] # <<>> /\ strip(csv_rows[n][1]) # <<>>
              THEN /\ Cardinality(LinesOf(n)) = 1
                   /\ \A i \in LinesOf(n) :
                         /\ ret[i].name = strip(csv_rows[n][1])
                         /\ HeadingAbove(i) = upper(<<strip(csv_rows[n][1])[1]>>)
              ELSE LinesOf(n) = {}
        /\ \A i \in 1..Len(ret) : \A j \in 1..Len(ret) :
              (i < j /\ ret[i].tag = "h2" /\ ret[j].tag = "h2")
                  => SeqLess(ords(ret[i].text), ords(ret[j].text))
        /\ \A i \in 1..Len(ret) : \A j \in 1..Len(ret) :
              (i < j /\ ret[i].tag = "li" /\ ret[j].tag = "li" /\ HeadingAbove(i) = HeadingAbove(j))
                  => ~SeqLess(ords(ret[j].name), ords(ret[i].name))

====
